---- MODULE Spec2Model ----
(***************************************************************************)
(* Model of GfxAPIVulkan (src/GfxAPIVulkan/GfxAPIVulkan.cpp): the swap     *)
(* chain negotiation functions, the swap chain (re)build protocol          *)
(* (InitializeSwapChain / DestroySwapChain), the window resize callback    *)
(* and the per-frame Render call.                                          *)
(***************************************************************************)
EXTENDS Integers, Sequences, FiniteSets, TLC

(***************************************************************************)
(* Bounds of the model.                                                    *)
(***************************************************************************)
\* largest number of images a swap chain hands out
MaxImages == 3
\* largest number of swap chain builds (Initialize plus rebuilds) in a run
MaxBuilds == 3
\* largest finite extent component a surface reports
MaxExtent == 3
\* largest image count a surface reports
MaxCount == 10
\* longest list of present modes a surface reports
MaxModes == 3
\* longest list of surface formats a surface reports
MaxFormats == 3
MaxDevices == 2
MaxFamilies == 2
MaxMemoryTypes == 2

(***************************************************************************)
(* Program constants.                                                      *)
(***************************************************************************)
\* std::numeric_limits<uint32_t>::max(), the "any extent" value of currentExtent;
\* 2^31 - 1 stands for 2^32 - 1, the largest value of uint32_t; the only arithmetic
\* done on it is the conversion to float, which rounds either to a power of two
UINT32_MAX == 2147483647

VK_SUCCESS == "VK_SUCCESS"
VK_SUBOPTIMAL_KHR == "VK_SUBOPTIMAL_KHR"
VK_ERROR_OUT_OF_DATE_KHR == "VK_ERROR_OUT_OF_DATE_KHR"
VK_ERROR_DEVICE_LOST == "VK_ERROR_DEVICE_LOST"
\* the results vkAcquireNextImageKHR and vkQueuePresentKHR can report
VkResults == {VK_SUCCESS, VK_SUBOPTIMAL_KHR, VK_ERROR_OUT_OF_DATE_KHR, VK_ERROR_DEVICE_LOST}

VK_PRESENT_MODE_IMMEDIATE_KHR == "VK_PRESENT_MODE_IMMEDIATE_KHR"
VK_PRESENT_MODE_MAILBOX_KHR == "VK_PRESENT_MODE_MAILBOX_KHR"
VK_PRESENT_MODE_FIFO_KHR == "VK_PRESENT_MODE_FIFO_KHR"
VK_PRESENT_MODE_FIFO_RELAXED_KHR == "VK_PRESENT_MODE_FIFO_RELAXED_KHR"
PresentModes == {VK_PRESENT_MODE_IMMEDIATE_KHR, VK_PRESENT_MODE_MAILBOX_KHR,
                 VK_PRESENT_MODE_FIFO_KHR, VK_PRESENT_MODE_FIFO_RELAXED_KHR}

VK_FORMAT_UNDEFINED == "VK_FORMAT_UNDEFINED"
VK_FORMAT_B8G8R8A8_UNORM == "VK_FORMAT_B8G8R8A8_UNORM"
VK_FORMAT_R8G8B8A8_UNORM == "VK_FORMAT_R8G8B8A8_UNORM"
VK_COLOR_SPACE_SCRGB_NONLINEAR_EXT == "VK_COLOR_SPACE_SCRGB_NONLINEAR_EXT"
VK_COLOR_SPACE_SRGB_NONLINEAR_KHR == "VK_COLOR_SPACE_SRGB_NONLINEAR_KHR"
\* the surface formats a surface can report: VkSurfaceFormatKHR {format, colorSpace}
SurfaceFormats == [format : {VK_FORMAT_UNDEFINED, VK_FORMAT_B8G8R8A8_UNORM, VK_FORMAT_R8G8B8A8_UNORM},
                   colorSpace : {VK_COLOR_SPACE_SCRGB_NONLINEAR_EXT, VK_COLOR_SPACE_SRGB_NONLINEAR_KHR}]

\* all sequences over S of a length in lo..hi
SeqsOf(S, lo, hi) == UNION {[1..n -> S] : n \in lo..hi}

Min(a, b) == IF a < b THEN a ELSE b
Max(a, b) == IF a > b THEN a ELSE b

\* a float: the value mantissa * 2^exponent, the mantissa of 24 bits
RECURSIVE FloatExponent(_, _)
FloatExponent(n, e) == IF n \div (2 ^ e) < 2 ^ 24 THEN e ELSE FloatExponent(n, e + 1)

\* (float) n of an unsigned integer: exact below 2^24, else rounded to the
\* nearest float, ties to the even mantissa
Float(n) ==
    LET e == FloatExponent(n, 0)
        t == n \div (2 ^ e)
        r == n % (2 ^ e)
        m == IF e > 0 /\ (2 * r > 2 ^ e \/ (2 * r = 2 ^ e /\ t % 2 = 1)) THEN t + 1 ELSE t
    IN  IF m = 2 ^ 24 THEN [mantissa |-> 2 ^ 23, exponent |-> e + 1]
        ELSE [mantissa |-> m, exponent |-> e]

(***************************************************************************)
(* Swap chain negotiation: the pure functions of CreateSwapChain.          *)
(***************************************************************************)

\* SelectSwapChainFormat with the preferred pair matched on the format only
SelectSwapChainFormat_FormatOnly(aFormats) ==
    IF Len(aFormats) = 1 /\ aFormats[1].format = VK_FORMAT_UNDEFINED
    THEN [format |-> VK_FORMAT_B8G8R8A8_UNORM, colorSpace |-> VK_COLOR_SPACE_SCRGB_NONLINEAR_EXT]
    ELSE IF \E i \in 1..Len(aFormats) : aFormats[i].format = VK_FORMAT_B8G8R8A8_UNORM
         THEN [format |-> VK_FORMAT_B8G8R8A8_UNORM, colorSpace |-> VK_COLOR_SPACE_SCRGB_NONLINEAR_EXT]
         ELSE aFormats[1]

\* sfmtFormat as SelectSwapChainFormat leaves it, for a non-empty aFormats
SelectSwapChainFormat(aFormats) ==
    IF Len(aFormats) = 1 /\ aFormats[1].format = VK_FORMAT_UNDEFINED
    THEN [format |-> VK_FORMAT_B8G8R8A8_UNORM, colorSpace |-> VK_COLOR_SPACE_SCRGB_NONLINEAR_EXT]
    ELSE IF \E i \in 1..Len(aFormats) :
                /\ aFormats[i].colorSpace = VK_COLOR_SPACE_SCRGB_NONLINEAR_EXT
                /\ aFormats[i].format = VK_FORMAT_B8G8R8A8_UNORM
         THEN [format |-> VK_FORMAT_B8G8R8A8_UNORM, colorSpace |-> VK_COLOR_SPACE_SCRGB_NONLINEAR_EXT]
         ELSE aFormats[1]

RECURSIVE ScanPresentModes_EarlyReturn(_, _, _)
\* the scan of SelectSwapChainPresentMode returning at the first IMMEDIATE entry
ScanPresentModes_EarlyReturn(aPresentModes, i, spm) ==
    IF i > Len(aPresentModes) THEN spm
    ELSE IF aPresentModes[i] = VK_PRESENT_MODE_MAILBOX_KHR THEN VK_PRESENT_MODE_MAILBOX_KHR
    ELSE IF aPresentModes[i] = VK_PRESENT_MODE_IMMEDIATE_KHR THEN VK_PRESENT_MODE_IMMEDIATE_KHR
    ELSE ScanPresentModes_EarlyReturn(aPresentModes, i + 1, spm)

RECURSIVE ScanPresentModes(_, _, _)
\* the for loop of SelectSwapChainPresentMode from entry i on, spm being spmPresentMode so far
ScanPresentModes(aPresentModes, i, spm) ==
    IF i > Len(aPresentModes) THEN spm
    ELSE IF aPresentModes[i] = VK_PRESENT_MODE_MAILBOX_KHR THEN VK_PRESENT_MODE_MAILBOX_KHR
    ELSE IF aPresentModes[i] = VK_PRESENT_MODE_IMMEDIATE_KHR
         THEN ScanPresentModes(aPresentModes, i + 1, VK_PRESENT_MODE_IMMEDIATE_KHR)
    ELSE ScanPresentModes(aPresentModes, i + 1, spm)

\* spmPresentMode as SelectSwapChainPresentMode leaves it
SelectSwapChainPresentMode(aPresentModes) ==
    ScanPresentModes(aPresentModes, 1, VK_PRESENT_MODE_FIFO_KHR)

\* sexExtent as SelectSwapChainExtent leaves it, for the cached capsSurface and
\* the window dimensions (w, h) = (GetWidth(), GetHeight())
SelectSwapChainExtent(caps, w, h) ==
    IF caps.currentExtent.width = UINT32_MAX
    THEN caps.currentExtent
    ELSE [width  |-> Max(caps.minImageExtent.width, Min(caps.maxImageExtent.width, w)),
          height |-> Max(caps.minImageExtent.height, Min(caps.maxImageExtent.height, h))]

\* the image count of CreateSwapChain without the clamp to maxImageCount
SelectImageCount_NoClamp(caps) == caps.minImageCount + 1

\* ctImages as CreateSwapChain requests it (minImageCount is far below 2^32 - 1,
\* so the uint32_t addition does not wrap)
SelectImageCount(caps) ==
    LET ctImages == caps.minImageCount + 1
    IN  IF caps.maxImageCount > 0 /\ ctImages > caps.maxImageCount
        THEN caps.maxImageCount
        ELSE ctImages


(***************************************************************************)
(* State.                                                                  *)
(***************************************************************************)
VARIABLES
    pc,            \* where the program is: between calls, inside Render, ended
    api,           \* the fields of the GfxAPIVulkan object
    wnd,           \* the dimensions the Window object holds (GetWidth/GetHeight)
    sys,           \* the size of the system window, as last notified
    live,          \* the driver's live objects: object kind -> set of handles
    gen,           \* number of vkCreateSwapchainKHR calls so far; names fresh handles
    log,           \* steps of the running or last Initialize/InitializeSwapChain/Destroy
    logOp,         \* which of these operations log belongs to
    error,         \* the exception that ended the program, or NoError
    misuse,        \* invalid driver calls made so far (destroying a dead handle)
    iImage,        \* Render's local iImage
    statusResult,  \* Render's local statusResult
    acquireResult, \* what vkAcquireNextImageKHR reported in the current/last Render call
    presentResult, \* what vkQueuePresentKHR reported in the current/last Render call
    callLog,       \* driver calls and rebuilds of the current/last Render call
    imageCounts,   \* number of images of every completed build, in order
    frame,         \* what the current/last Render call passed to acquire, submit and present
    inFlight,      \* submitted frames the device has not been waited for since
    host,          \* the installation the program runs on: options, driver, devices
    q              \* input and result of a negotiation function under check

vars == <<pc, api, wnd, sys, live, gen, log, logOp, error, misuse, iImage, statusResult,
          acquireResult, presentResult, callLog, imageCounts, frame, inFlight, host, q>>

\* a handle is <<build, index>>; handles of one kind are told apart by both
VK_NULL_HANDLE == <<0, 0>>
\* what an out-of-bounds or uninitialized read yields: a handle of no object
GarbageHandle == <<-1, -1>>
NoError == "none"
NoResult == "none"
NoQuery == [fn |-> "none"]
\* a driver call Render has not made (yet), and a Render call that made none
NoCall == [queue |-> "none"]
NoFrame == [uniform |-> NoCall, acquire |-> NoCall, submit |-> NoCall, present |-> NoCall]

Kinds == {"instance", "callback", "surface", "device", "swapchain", "image", "imageView", "renderPass",
          "descriptorSetLayout", "pipelineLayout", "pipeline", "framebuffer",
          "commandPool", "commandBuffer", "buffer", "memory", "semaphore"}

\* the state a sequence of calls works on, threaded through the calls
Machine(a, l, g, lg, e, mu) ==
    [api |-> a, live |-> l, gen |-> g, log |-> lg, error |-> e, misuse |-> mu]

Failed(m) == m.error # NoError

\* a step of the running operation starts
Log(m, step) == [m EXCEPT !.log = Append(@, step)]

\* throw std::runtime_error(what)
Throw(m, what) == [m EXCEPT !.error = what]

\* a vkCreate*/vkAllocate* call that succeeds and returns handle h
vkCreate(m, kind, h) == [m EXCEPT !.live[kind] = @ \cup {h}]

\* the set of handles stored in a vector
Handles(a) == {a[i] : i \in 1..Len(a)}

\* vkDestroy*/vkFree* of every handle of the set hs: VK_NULL_HANDLE is ignored,
\* a handle that is not live is an invalid call
vkDestroyAll(m, kind, hs) ==
    [m EXCEPT !.live[kind] = @ \ hs,
              !.misuse = @ \cup {<<kind, h>> : h \in (hs \ {VK_NULL_HANDLE}) \ m.live[kind]}]

vkDestroy(m, kind, h) == vkDestroyAll(m, kind, {h})

\* std::vector::resize(n): the first entries are kept, new ones are value-initialized
Resize(a, n) == [i \in 1..n |-> IF i <= Len(a) THEN a[i] ELSE VK_NULL_HANDLE]

\* n fresh handles of build g
NewHandles(g, n) == [i \in 1..n |-> <<g, i>>]

\* statement sequencing: the call Op runs in the state m the statements before
\* it left
Then(m, Op(_)) == CHOOSE r \in {Op(v) : v \in {m}} : TRUE

\* the same, with an exception in flight: the statements after a throw do not run
Try(m, Op(_)) == CHOOSE r \in {IF Failed(v) THEN v ELSE Op(v) : v \in {m}} : TRUE

(***************************************************************************)
(* The swap chain and the objects that depend on it.                       *)
(***************************************************************************)

\* DestroyImageViews
DestroyImageViews(m) ==
    vkDestroyAll(Log(m, "DestroyImageViews"), "imageView", Handles(m.api.aimgvImageViews))

\* DestroyFramebuffers
DestroyFramebuffers(m) ==
    vkDestroyAll(Log(m, "DestroyFramebuffers"), "framebuffer", Handles(m.api.atgtFramebuffers))

\* vkDestroySwapchainKHR: the swap chain's images go with it
vkDestroySwapchainKHR(m) ==
    [vkDestroy(Log(m, "vkDestroySwapchainKHR"), "swapchain", m.api.swcSwapChain) EXCEPT
        !.live["image"] = {h \in @ : h[1] # m.api.swcSwapChain[1]}]

\* vkFreeCommandBuffers, when there are command buffers; what was recorded
\* into them goes with them
FreeCommandBuffers(m) ==
    IF Len(m.api.acbufCommandBuffers) > 0
    THEN [vkDestroyAll(Log(m, "vkFreeCommandBuffers"), "commandBuffer",
                       Handles(m.api.acbufCommandBuffers)) EXCEPT !.api.recorded = <<>>]
    ELSE m

\* vkDestroyPipeline
DestroyPipeline(m) ==
    vkDestroy(Log(m, "vkDestroyPipeline"), "pipeline", m.api.vkgpipePipeline)

\* vkDestroyPipelineLayout
DestroyPipelineLayout(m) ==
    vkDestroy(Log(m, "vkDestroyPipelineLayout"), "pipelineLayout", m.api.vkplPipelineLayout)

\* vkDestroyRenderPass
DestroyRenderPass(m) ==
    vkDestroy(Log(m, "vkDestroyRenderPass"), "renderPass", m.api.vkpassRenderPass)

\* DestroySwapChain with the swap chain destroyed before the objects made from it
DestroySwapChain_SwapChainFirst(m) ==
    LET m0 == Then(m, vkDestroySwapchainKHR)
        m1 == Then(m0, FreeCommandBuffers)
        m2 == Then(m1, DestroyFramebuffers)
        m3 == Then(m2, DestroyPipeline)
        m4 == Then(m3, DestroyPipelineLayout)
        m5 == Then(m4, DestroyRenderPass)
    IN  Then(m5, DestroyImageViews)

\* DestroySwapChain
DestroySwapChain(m) ==
    LET m1 == Then(m, FreeCommandBuffers)
        m2 == Then(m1, DestroyFramebuffers)
        m3 == Then(m2, DestroyPipeline)
        m4 == Then(m3, DestroyPipelineLayout)
        m5 == Then(m4, DestroyRenderPass)
        m6 == Then(m5, DestroyImageViews)
    IN  Then(m6, vkDestroySwapchainKHR)

VK_SHARING_MODE_EXCLUSIVE == "VK_SHARING_MODE_EXCLUSIVE"
VK_SHARING_MODE_CONCURRENT == "VK_SHARING_MODE_CONCURRENT"

\* (uint32_t)i for a queue family index i: the absent index -1 becomes UINT32_MAX
Uint32(i) == IF i < 0 THEN UINT32_MAX ELSE i

\* the image sharing of a swap chain that is always exclusive
SelectSharingMode_AlwaysExclusive(a) ==
    [imageSharingMode |-> VK_SHARING_MODE_EXCLUSIVE,
     queueFamilyIndexCount |-> 0,
     pQueueFamilyIndices |-> <<>>]

\* CreateSwapChain: how the swap chain images are shared between the graphics
\* and the presentation queue family (pQueueFamilyIndices: <<>> is nullptr)
SelectSharingMode(a) ==
    IF a.iGraphicsQueueFamily = a.iPresentationQueueFamily
    THEN [imageSharingMode |-> VK_SHARING_MODE_EXCLUSIVE,
          queueFamilyIndexCount |-> 0,
          pQueueFamilyIndices |-> <<>>]
    ELSE [imageSharingMode |-> VK_SHARING_MODE_CONCURRENT,
          queueFamilyIndexCount |-> 2,
          pQueueFamilyIndices |-> <<Uint32(a.iGraphicsQueueFamily),
                                    Uint32(a.iPresentationQueueFamily)>>]

\* CreateSwapChain, for window dimensions w; vkCreateSwapchainKHR fails when fail,
\* else the new swap chain has n images
CreateSwapChain(m, w, n, fail) ==
    LET g  == m.gen + 1
        sh == SelectSharingMode(m.api)
        ci == [minImageCount |-> SelectImageCount(m.api.capsSurface),
               imageFormat   |-> SelectSwapChainFormat(m.api.aFormats).format,
               imageExtent   |-> SelectSwapChainExtent(m.api.capsSurface, w.width, w.height),
               imageSharingMode |-> sh.imageSharingMode,
               queueFamilyIndexCount |-> sh.queueFamilyIndexCount,
               pQueueFamilyIndices |-> sh.pQueueFamilyIndices]
        m1 == [Log(m, "CreateSwapChain") EXCEPT
                  !.gen = g,
                  !.api.sfmtFormat = SelectSwapChainFormat(m.api.aFormats),
                  !.api.spmPresentMode = SelectSwapChainPresentMode(m.api.aPresentModes),
                  !.api.sexExtent = ci.imageExtent,
                  !.api.ciSwapChain = ci]
    IN  IF fail THEN Throw(m1, "Failed to create the swap chain")
        ELSE [vkCreate(m1, "swapchain", <<g, 0>>) EXCEPT
                  !.api.swcSwapChain = <<g, 0>>,
                  !.api.aimgImages = NewHandles(g, n),
                  !.live["image"] = @ \cup Handles(NewHandles(g, n))]

\* CreateImageViews; the first vkCreateImageView fails when fail. ciImageViews
\* keeps the VkImageViewCreateInfo each view was created with
CreateImageViews(m, fail) ==
    LET n  == Len(m.api.aimgImages)
        m1 == [Log(m, "CreateImageViews") EXCEPT
                  !.api.aimgvImageViews = Resize(@, n)]
    IN  IF fail THEN Throw(m1, "Failed to create an image view")
        ELSE [m1 EXCEPT !.api.aimgvImageViews = NewHandles(m.gen, n),
                        !.api.ciImageViews =
                            [i \in 1..n |-> [image |-> m.api.aimgImages[i],
                                             format |-> m.api.sfmtFormat.format]],
                        !.live["imageView"] = @ \cup Handles(NewHandles(m.gen, n))]

VK_SUBPASS_EXTERNAL == "VK_SUBPASS_EXTERNAL"
VK_PIPELINE_STAGE_COLOR_ATTACHMENT_OUTPUT_BIT == "VK_PIPELINE_STAGE_COLOR_ATTACHMENT_OUTPUT_BIT"

\* the VkSubpassDependency CreateRenderPass fills in
infDependency ==
    [srcSubpass |-> VK_SUBPASS_EXTERNAL,
     srcStageMask |-> {VK_PIPELINE_STAGE_COLOR_ATTACHMENT_OUTPUT_BIT},
     dstSubpass |-> 0,
     dstStageMask |-> {VK_PIPELINE_STAGE_COLOR_ATTACHMENT_OUTPUT_BIT}]

\* the subpass dependencies vkCreateRenderPass reads from a VkRenderPassCreateInfo:
\* the first dependencyCount entries of pDependencies
SubpassDependencies(ciRenderPass) ==
    SubSeq(ciRenderPass.pDependencies, 1, ciRenderPass.dependencyCount)

\* CreateRenderPass; ciRenderPass keeps the dependency fields of the
\* VkRenderPassCreateInfo the render pass was created with
CreateRenderPass(m, fail) ==
    LET m1 == Log(m, "CreateRenderPass")
    IN  IF fail THEN Throw(m1, "Failed to create the render pass")
        ELSE [vkCreate(m1, "renderPass", <<m.gen, 0>>) EXCEPT
                  !.api.vkpassRenderPass = <<m.gen, 0>>,
                  !.api.descColorAttachment = [format |-> m.api.sfmtFormat.format],
                  !.api.ciRenderPass = [dependencyCount |-> 0,
                                        pDependencies |-> <<infDependency>>]]

\* CreateDescriptorSetLayout
CreateDescriptorSetLayout(m, fail) ==
    LET m1 == Log(m, "CreateDescriptorSetLayout")
    IN  IF fail THEN Throw(m1, "Unable to create the descriptor set layout")
        ELSE [vkCreate(m1, "descriptorSetLayout", <<m.gen, 0>>) EXCEPT
                  !.api.vkhDescriptorSetLayout = <<m.gen, 0>>]

\* CreateGraphicsPipeline; failAt names the call of it that fails, if any
CreateGraphicsPipeline(m, failAt) ==
    LET m1 == Log(m, "CreateGraphicsPipeline")
        m2 == [vkCreate(m1, "pipelineLayout", <<m.gen, 0>>) EXCEPT
                  !.api.vkplPipelineLayout = <<m.gen, 0>>]
    IN  IF failAt = "vkCreatePipelineLayout" THEN Throw(m1, "Failed to create the pipeline layout!")
        ELSE IF failAt = "vkCreateGraphicsPipelines" THEN Throw(m2, "Failed to create the graphics pipeline")
        ELSE [vkCreate(m2, "pipeline", <<m.gen, 0>>) EXCEPT
                  !.api.vkgpipePipeline = <<m.gen, 0>>,
                  !.api.ciViewportState =
                      [vpViewport  |-> [width  |-> Float(m.api.sexExtent.width),
                                        height |-> Float(m.api.sexExtent.height)],
                       rectScissor |-> [extent |-> m.api.sexExtent]]]

\* CreateFramebuffers; the first vkCreateFramebuffer fails when fail.
\* ciFramebuffers keeps the VkFramebufferCreateInfo of each framebuffer
CreateFramebuffers(m, fail) ==
    LET n  == Len(m.api.aimgvImageViews)
        m1 == [Log(m, "CreateFramebuffers") EXCEPT
                  !.api.atgtFramebuffers = Resize(@, n)]
    IN  IF fail THEN Throw(m1, "Failed to create a framebuffer")
        ELSE [m1 EXCEPT !.api.atgtFramebuffers = NewHandles(m.gen, n),
                        !.api.ciFramebuffers =
                            [i \in 1..n |-> [renderPass |-> m.api.vkpassRenderPass,
                                             width  |-> m.api.sexExtent.width,
                                             height |-> m.api.sexExtent.height,
                                             pAttachments |-> <<m.api.aimgvImageViews[i]>>]],
                        !.live["framebuffer"] = @ \cup Handles(NewHandles(m.gen, n))]

\* CreateCommandBuffers sized by the image count requested from the swap chain
CreateCommandBuffers_RequestedCount(m, fail) ==
    LET n  == m.api.ciSwapChain.minImageCount
        m1 == [Log(m, "CreateCommandBuffers") EXCEPT
                  !.api.acbufCommandBuffers = Resize(@, n)]
    IN  IF fail THEN Throw(m1, "Failed to create allocate command buffers")
        ELSE [m1 EXCEPT !.api.acbufCommandBuffers = NewHandles(m.gen, n),
                        !.live["commandBuffer"] = @ \cup Handles(NewHandles(m.gen, n))]

\* CreateCommandBuffers
CreateCommandBuffers(m, fail) ==
    LET n  == Len(m.api.atgtFramebuffers)
        m1 == [Log(m, "CreateCommandBuffers") EXCEPT
                  !.api.acbufCommandBuffers = Resize(@, n)]
    IN  IF fail THEN Throw(m1, "Failed to create allocate command buffers")
        ELSE [m1 EXCEPT !.api.acbufCommandBuffers = NewHandles(m.gen, n),
                        !.live["commandBuffer"] = @ \cup Handles(NewHandles(m.gen, n))]

\* a command recorded into a command buffer
Command(cmd, args) == [cmd |-> cmd, args |-> args]

\* the loop of RecordCommandBuffers with the framebuffer bound once, before the
\* loop: every command buffer renders to the first framebuffer
RecordedCommands_FirstFramebuffer(a, iCommandBuffer) ==
    <<Command("vkBeginCommandBuffer", <<>>),
      Command("vkCmdBeginRenderPass",
              [renderPass  |-> a.vkpassRenderPass,
               framebuffer |-> IF 1 \in 1..Len(a.atgtFramebuffers)
                               THEN a.atgtFramebuffers[1]
                               ELSE GarbageHandle,
               renderArea  |-> [extent |-> a.sexExtent]]),
      Command("vkCmdBindPipeline", a.vkgpipePipeline),
      Command("vkCmdBindVertexBuffers", <<a.vkhVertexBuffer>>),
      Command("vkCmdBindIndexBuffer", a.vkhIndexBuffer),
      Command("vkCmdDrawIndexed", <<>>),
      Command("vkCmdEndRenderPass", <<>>),
      Command("vkEndCommandBuffer", <<>>)>>

\* what one turn of the loop of RecordCommandBuffers records into
\* acbufCommandBuffers[iCommandBuffer] (from 0)
RecordedCommands(a, iCommandBuffer) ==
    <<Command("vkBeginCommandBuffer", <<>>),
      Command("vkCmdBeginRenderPass",
              [renderPass  |-> a.vkpassRenderPass,
               framebuffer |-> IF iCommandBuffer + 1 \in 1..Len(a.atgtFramebuffers)
                               THEN a.atgtFramebuffers[iCommandBuffer + 1]
                               ELSE GarbageHandle,
               renderArea  |-> [extent |-> a.sexExtent]]),
      Command("vkCmdBindPipeline", a.vkgpipePipeline),
      Command("vkCmdBindVertexBuffers", <<a.vkhVertexBuffer>>),
      Command("vkCmdBindIndexBuffer", a.vkhIndexBuffer),
      Command("vkCmdDrawIndexed", <<>>),
      Command("vkCmdEndRenderPass", <<>>),
      Command("vkEndCommandBuffer", <<>>)>>

\* RecordCommandBuffers; the first vkEndCommandBuffer fails when fail.
\* recorded keeps what each command buffer holds, in the order of acbufCommandBuffers
RecordCommandBuffers(m, fail) ==
    LET m1 == Log(m, "RecordCommandBuffers")
        n  == Len(m.api.acbufCommandBuffers)
    IN  IF fail
        THEN Throw([m1 EXCEPT !.api.recorded =
                       [i \in 1..n |-> IF i = 1 THEN RecordedCommands(m.api, 0) ELSE <<>>]],
                   "Failed to record command buffer")
        ELSE [m1 EXCEPT !.api.recorded =
                 [i \in 1..n |-> RecordedCommands(m.api, i - 1)]]

\* the calls of a build that can fail
ChainFailPoints == {"CreateSwapChain", "CreateImageViews", "CreateRenderPass",
                    "CreateDescriptorSetLayout", "vkCreatePipelineLayout",
                    "vkCreateGraphicsPipelines", "CreateFramebuffers",
                    "CreateCommandBuffers", "RecordCommandBuffers"}

\* the creation calls InitializeSwapChain makes after CreateSwapChain
CreateDependents(m, failAt) ==
    LET m1 == Try(m,  LAMBDA v : CreateImageViews(v, failAt = "CreateImageViews"))
        m2 == Try(m1, LAMBDA v : CreateRenderPass(v, failAt = "CreateRenderPass"))
        m3 == Try(m2, LAMBDA v : CreateDescriptorSetLayout(v, failAt = "CreateDescriptorSetLayout"))
        m4 == Try(m3, LAMBDA v : CreateGraphicsPipeline(v, failAt))
        m5 == Try(m4, LAMBDA v : CreateFramebuffers(v, failAt = "CreateFramebuffers"))
        m6 == Try(m5, LAMBDA v : CreateCommandBuffers(v, failAt = "CreateCommandBuffers"))
    IN  Try(m6, LAMBDA v : RecordCommandBuffers(v, failAt = "RecordCommandBuffers"))

\* InitializeSwapChain: the rebuild. failAt names the creation call that fails
\* ("none": no call fails), n the number of images of the new swap chain
InitializeSwapChain(m, w, n, failAt) ==
    LET m1 == Log([m EXCEPT !.log = <<>>], "vkDeviceWaitIdle")
        m2 == Then(m1, DestroySwapChain)
        m3 == Then(m2, LAMBDA v : CreateSwapChain(v, w, n, failAt = "CreateSwapChain"))
    IN  Try(m3, LAMBDA v : CreateDependents(v, failAt))


(***************************************************************************)
(* Initialize and Destroy.                                                 *)
(***************************************************************************)

VK_PHYSICAL_DEVICE_TYPE_DISCRETE_GPU == "VK_PHYSICAL_DEVICE_TYPE_DISCRETE_GPU"
VK_PHYSICAL_DEVICE_TYPE_INTEGRATED_GPU == "VK_PHYSICAL_DEVICE_TYPE_INTEGRATED_GPU"
VK_QUEUE_GRAPHICS_BIT == "VK_QUEUE_GRAPHICS_BIT"
VK_QUEUE_COMPUTE_BIT == "VK_QUEUE_COMPUTE_BIT"
VK_KHR_SWAPCHAIN_EXTENSION_NAME == "VK_KHR_swapchain"

\* a flag word is the set of its bits: a | b, and the test of a word in a condition
BitOr(a, b) == a \cup b
NonZero(flags) == flags # {}

\* FindQueueFamilies, the body of its loop for family iQueueFamily (from 0)
ExamineQueueFamily(m, qfQueueFamily, iQueueFamily) ==
    [m EXCEPT
        !.api.iGraphicsQueueFamily =
            IF @ < 0 /\ qfQueueFamily.queueCount > 0
                     /\ NonZero(BitOr(qfQueueFamily.queueFlags, {VK_QUEUE_GRAPHICS_BIT}))
            THEN iQueueFamily ELSE @,
        !.api.iPresentationQueueFamily =
            IF @ < 0 /\ qfQueueFamily.queueCount > 0 /\ qfQueueFamily.bPresentationSupport
            THEN iQueueFamily ELSE @]

RECURSIVE ScanQueueFamilies(_, _, _)
ScanQueueFamilies(m, aQueueFamilies, iQueueFamily) ==
    IF iQueueFamily >= Len(aQueueFamilies) THEN m
    ELSE ScanQueueFamilies(
             Then(m, LAMBDA v : ExamineQueueFamily(v, aQueueFamilies[iQueueFamily + 1],
                                                   iQueueFamily)),
             aQueueFamilies, iQueueFamily + 1)

\* FindQueueFamilies
FindQueueFamilies(m, device) == ScanQueueFamilies(m, device.aQueueFamilies, 0)

\* IsQueueFamiliesSuitable
IsQueueFamiliesSuitable(a) == IF a.iGraphicsQueueFamily < 0 THEN FALSE ELSE TRUE

\* GetRequiredDeviceExtensions
GetRequiredDeviceExtensions == <<VK_KHR_SWAPCHAIN_EXTENSION_NAME>>

\* CheckDeviceExtensionSupport
CheckDeviceExtensionSupport(m, device, astrRequiredExtensions) ==
    IF \E i \in 1..Len(astrRequiredExtensions) :
          astrRequiredExtensions[i] \notin device.aAvailableExtensions
    THEN Throw(m, "Not all required extensions are supported")
    ELSE m

\* QuerySwapChainSupport
QuerySwapChainSupport(m, device) ==
    [m EXCEPT !.api.capsSurface = device.caps,
              !.api.aFormats = device.formats,
              !.api.aPresentModes = device.modes]

\* the return of a function that also changes the object: the state it leaves
\* and the value returned
Returns(m, ret) == [m |-> m, ret |-> ret]

\* IsDeviceSuitable
IsDeviceSuitable(m, device) ==
    IF device.deviceType # VK_PHYSICAL_DEVICE_TYPE_DISCRETE_GPU \/ ~device.geometryShader
    THEN Returns(m, FALSE)
    ELSE Then(FindQueueFamilies(m, device), LAMBDA m1 :
         IF ~IsQueueFamiliesSuitable(m1.api) THEN Returns(m1, FALSE)
         ELSE Then(CheckDeviceExtensionSupport(m1, device, GetRequiredDeviceExtensions),
                   LAMBDA m2 :
              IF Failed(m2) THEN Returns(m2, FALSE)
              ELSE Then(QuerySwapChainSupport(m2, device), LAMBDA m3 :
                   IF m3.api.aFormats = <<>> \/ m3.api.aPresentModes = <<>>
                   THEN Returns(m3, FALSE)
                   ELSE Returns(m3, TRUE))))

\* SelectPhysicalDevice, its loop from the i-th enumerated device on; the handle
\* of the i-th device is <<1, i>>
RECURSIVE ScanPhysicalDevices(_, _, _)
ScanPhysicalDevices(m, aPhysicalDevices, i) ==
    IF i > Len(aPhysicalDevices) THEN m
    ELSE Then(IsDeviceSuitable(m, aPhysicalDevices[i]), LAMBDA r :
         IF Failed(r.m) THEN r.m
         ELSE IF r.ret THEN [r.m EXCEPT !.api.vkdevPhysicalDevice = <<1, i>>]
         ELSE ScanPhysicalDevices(r.m, aPhysicalDevices, i + 1))

\* SelectPhysicalDevice, for the devices vkEnumeratePhysicalDevices lists
SelectPhysicalDevice(m, aPhysicalDevices) ==
    IF Len(aPhysicalDevices) = 0
    THEN Throw(Log(m, "SelectPhysicalDevice"), "No available physical devices")
    ELSE Then(ScanPhysicalDevices(Log(m, "SelectPhysicalDevice"), aPhysicalDevices, 1),
              LAMBDA m1 :
                 IF Failed(m1) THEN m1
                 ELSE IF m1.api.vkdevPhysicalDevice = VK_NULL_HANDLE
                 THEN Throw(m1, "No suitable physical device found")
                 ELSE m1)

\* CreateLogicalDevice; vkCreateDevice fails when fail. A queue is requested of
\* every family of setQueueFamilies: an absent index is an invalid request
CreateLogicalDevice(m, fail) ==
    LET setQueueFamilies == {m.api.iGraphicsQueueFamily, m.api.iPresentationQueueFamily}
        m1 == [Log(m, "CreateLogicalDevice") EXCEPT
                  !.misuse = @ \cup {<<"queueFamilyIndex", i>> : i \in {j \in setQueueFamilies : j < 0}}]
    IN  IF fail THEN Throw(m1, "Failed to create the logical device")
        ELSE [vkCreate(m1, "device", <<1, 0>>) EXCEPT
                 !.api.vkdevLogicalDevice = <<1, 0>>,
                 !.api.qGraphicsQueue = <<m.api.iGraphicsQueueFamily, 0>>,
                 !.api.qPresentationQueue = <<m.api.iPresentationQueueFamily, 0>>]

VK_KHR_SURFACE_EXTENSION_NAME == "VK_KHR_surface"
VK_KHR_WIN32_SURFACE_EXTENSION_NAME == "VK_KHR_win32_surface"
VK_EXT_DEBUG_REPORT_EXTENSION_NAME == "VK_EXT_debug_report"

\* the validation layers the program asks for
validationLayers == {"VK_LAYER_LUNARG_standard_validation"}

\* Options::Get().ShouldUseValidationLayers()
ShouldUseValidationLayers(h) == h.bUseValidationLayers

\* glfwGetRequiredInstanceExtensions: the extensions the window system needs
glfwGetRequiredInstanceExtensions == {VK_KHR_SURFACE_EXTENSION_NAME,
                                      VK_KHR_WIN32_SURFACE_EXTENSION_NAME}

\* GetRequiredInstanceExtensions
GetRequiredInstanceExtensions(h) ==
    glfwGetRequiredInstanceExtensions \cup
        IF ShouldUseValidationLayers(h) THEN {VK_EXT_DEBUG_REPORT_EXTENSION_NAME} ELSE {}

\* CheckInstanceExtensionSupport
CheckInstanceExtensionSupport(m, h, astrRequiredExtensions) ==
    IF \E strExtension \in astrRequiredExtensions : strExtension \notin h.aAvailableExtensions
    THEN Throw(m, "Not all required extensions are supported")
    ELSE m

\* CheckValidationLayerSupport
CheckValidationLayerSupport(h) ==
    \A layerName \in validationLayers : layerName \in h.availableLayers

\* SetupValidationLayers
SetupValidationLayers(m, h) ==
    IF ShouldUseValidationLayers(h) /\ ~CheckValidationLayerSupport(h)
    THEN Throw(m, "Validation layers enabled but not available!")
    ELSE m

\* the vkCreateInstance call of CreateInstance
vkCreateInstance(m, h, fail) ==
    LET ciInstance == [ppEnabledExtensionNames |-> GetRequiredInstanceExtensions(h),
                       ppEnabledLayerNames |-> IF ShouldUseValidationLayers(h)
                                               THEN validationLayers ELSE {}]
    IN  IF fail THEN Throw(m, "Failed to create a Vulkan instance")
        ELSE [vkCreate(m, "instance", <<1, 0>>) EXCEPT
                 !.api.vkiInstance = <<1, 0>>, !.api.ciInstance = ciInstance]

\* CreateInstance that enables the layers without looking for them
CreateInstance_LayersUnchecked(m, h, fail) ==
    LET m1 == CheckInstanceExtensionSupport(Log(m, "CreateInstance"), h,
                                            GetRequiredInstanceExtensions(h))
    IN  Try(m1, LAMBDA v : vkCreateInstance(v, h, fail))

\* CreateInstance
CreateInstance(m, h, fail) ==
    LET m1 == CheckInstanceExtensionSupport(Log(m, "CreateInstance"), h,
                                            GetRequiredInstanceExtensions(h))
        m2 == Try(m1, LAMBDA v : SetupValidationLayers(v, h))
    IN  Try(m2, LAMBDA v : vkCreateInstance(v, h, fail))

\* SetupValidationErrorCallback: it returns at once when validation layers are
\* in use, and creates the callback only when they are in use
SetupValidationErrorCallback(m, h, fail) ==
    IF ShouldUseValidationLayers(h) THEN Log(m, "SetupValidationErrorCallback")
    ELSE IF ShouldUseValidationLayers(h)
    THEN IF fail
         THEN Throw(Log(m, "SetupValidationErrorCallback"),
                    "Failed to set up the validation layer debug callback")
         ELSE [vkCreate(Log(m, "SetupValidationErrorCallback"), "callback", <<1, 0>>) EXCEPT
                  !.api.clbkValidation = <<1, 0>>]
    ELSE Log(m, "SetupValidationErrorCallback")

\* DestroyValidationErrorCallback: it returns at once when validation layers
\* are in use. pfn tells whether vkGetInstanceProcAddr finds
\* vkDestroyDebugReportCallbackEXT; clbk is what the read of clbkValidation yields
DestroyValidationErrorCallback(m, h, pfn, clbk) ==
    IF ShouldUseValidationLayers(h) THEN Log(m, "DestroyValidationErrorCallback")
    ELSE IF ~pfn
    THEN Throw(Log(m, "DestroyValidationErrorCallback"),
               "Failed to destroy the validation callback")
    ELSE vkDestroy(Log(Log(m, "DestroyValidationErrorCallback"),
                       "vkDestroyDebugReportCallbackEXT"), "callback", clbk)

\* CreateSurface
CreateSurface(m) ==
    [vkCreate(Log(m, "CreateSurface"), "surface", <<1, 0>>) EXCEPT
        !.api.sfcSurface = <<1, 0>>]

\* the objects Initialize creates once, before the swap chain: CreateInstance,
\* SetupValidationErrorCallback, CreateSurface, SelectPhysicalDevice and CreateLogicalDevice
CreateDeviceObjects(m, h, failAt) ==
    LET m1 == Then(m, LAMBDA v : CreateInstance(v, h, failAt = "CreateInstance"))
        m2 == Try(m1, LAMBDA v : SetupValidationErrorCallback(v, h,
                                     failAt = "SetupValidationErrorCallback"))
        m3 == Try(m2, CreateSurface)
        m4 == Try(m3, LAMBDA v : SelectPhysicalDevice(v, h.aPhysicalDevices))
    IN  Try(m4, LAMBDA v : CreateLogicalDevice(v, failAt = "CreateLogicalDevice"))

\* vkDestroyDescriptorSetLayout
DestroyDescriptorSetLayout(m) ==
    vkDestroy(Log(m, "vkDestroyDescriptorSetLayout"), "descriptorSetLayout",
              m.api.vkhDescriptorSetLayout)

\* vkDestroyBuffer and vkFreeMemory of the vertex buffer, then of the index buffer
DestroyGeometryBuffers(m) ==
    [Log(Log(m, "vkDestroyBuffer"), "vkDestroyBuffer") EXCEPT
        !.live["buffer"] = @ \ {m.api.vkhIndexBuffer, m.api.vkhVertexBuffer},
        !.live["memory"] = @ \ {m.api.vkhIndexBufferMemory, m.api.vkhVertexBufferMemory},
        !.misuse = @ \cup
            {<<"buffer", h>> : h \in ({m.api.vkhIndexBuffer, m.api.vkhVertexBuffer}
                                         \ {VK_NULL_HANDLE}) \ m.live["buffer"]} \cup
            {<<"memory", h>> : h \in ({m.api.vkhIndexBufferMemory, m.api.vkhVertexBufferMemory}
                                         \ {VK_NULL_HANDLE}) \ m.live["memory"]}]

\* vkDestroyCommandPool
DestroyCommandPool(m) ==
    vkDestroy(Log(m, "vkDestroyCommandPool"), "commandPool", m.api.vkhCommandPool)

\* vkDestroyDevice
DestroyDevice(m) ==
    vkDestroy(Log(m, "vkDestroyDevice"), "device", m.api.vkdevLogicalDevice)

\* vkDestroySurfaceKHR
DestroySurface(m) ==
    vkDestroy(Log(m, "vkDestroySurfaceKHR"), "surface", m.api.sfcSurface)

\* vkDestroyInstance
DestroyInstance(m) ==
    vkDestroy(Log(m, "vkDestroyInstance"), "instance", m.api.vkiInstance)

VK_MEMORY_PROPERTY_DEVICE_LOCAL_BIT == "VK_MEMORY_PROPERTY_DEVICE_LOCAL_BIT"
VK_MEMORY_PROPERTY_HOST_VISIBLE_BIT == "VK_MEMORY_PROPERTY_HOST_VISIBLE_BIT"
VK_MEMORY_PROPERTY_HOST_COHERENT_BIT == "VK_MEMORY_PROPERTY_HOST_COHERENT_BIT"
MemoryPropertyFlags == {VK_MEMORY_PROPERTY_DEVICE_LOCAL_BIT, VK_MEMORY_PROPERTY_HOST_VISIBLE_BIT,
                        VK_MEMORY_PROPERTY_HOST_COHERENT_BIT}

\* a & b of flag words; 1 << i is the word with bit i alone
BitAnd(a, b) == a \cap b
Bit(i) == {i}

\* FindMemoryType's test of a memory type, accepting any one requested property
MemoryTypeFits_AnyProperty(flgTypeFilter, flgProperties, memoryTypes, iMemoryType) ==
    /\ NonZero(BitAnd(flgTypeFilter, Bit(iMemoryType)))
    /\ NonZero(BitAnd(memoryTypes[iMemoryType + 1], flgProperties))

\* FindMemoryType's test of memory type iMemoryType (from 0)
MemoryTypeFits(flgTypeFilter, flgProperties, memoryTypes, iMemoryType) ==
    /\ NonZero(BitAnd(flgTypeFilter, Bit(iMemoryType)))
    /\ BitAnd(memoryTypes[iMemoryType + 1], flgProperties) = flgProperties

RECURSIVE ScanMemoryTypes(_, _, _, _)
ScanMemoryTypes(flgTypeFilter, flgProperties, memoryTypes, iMemoryType) ==
    IF iMemoryType >= Len(memoryTypes)
    THEN [ret |-> -1, error |-> "Unable to find an appropriate memory type"]
    ELSE IF MemoryTypeFits(flgTypeFilter, flgProperties, memoryTypes, iMemoryType)
    THEN [ret |-> iMemoryType, error |-> NoError]
    ELSE ScanMemoryTypes(flgTypeFilter, flgProperties, memoryTypes, iMemoryType + 1)

\* FindMemoryType, for the memory types vkGetPhysicalDeviceMemoryProperties
\* lists: the index returned, or the exception thrown (no index is returned then)
FindMemoryType(flgTypeFilter, flgProperties, memoryTypes) ==
    ScanMemoryTypes(flgTypeFilter, flgProperties, memoryTypes, 0)

\* CreateCommandPool
CreateCommandPool(m) ==
    [vkCreate(Log(m, "CreateCommandPool"), "commandPool", <<1, 0>>) EXCEPT
        !.api.vkhCommandPool = <<1, 0>>]

\* CreateVertexBuffers and CreateIndexBuffers: the two device-local buffers and
\* their memory
CreateGeometryBuffers(m) ==
    [Log(Log(m, "CreateVertexBuffers"), "CreateIndexBuffers") EXCEPT
        !.api.vkhVertexBuffer = <<1, 1>>,
        !.api.vkhVertexBufferMemory = <<1, 1>>,
        !.api.vkhIndexBuffer = <<1, 2>>,
        !.api.vkhIndexBufferMemory = <<1, 2>>,
        !.live["buffer"] = @ \cup {<<1, 1>>, <<1, 2>>},
        !.live["memory"] = @ \cup {<<1, 1>>, <<1, 2>>}]

\* CreateSemaphores
CreateSemaphores(m) ==
    [Log(m, "CreateSemaphores") EXCEPT
        !.api.syncImageAvailable = <<1, 1>>,
        !.api.syncRender = <<1, 2>>,
        !.live["semaphore"] = @ \cup {<<1, 1>>, <<1, 2>>}]

\* DestroySemaphores
DestroySemaphores(m) ==
    vkDestroyAll(Log(m, "DestroySemaphores"), "semaphore",
                 {m.api.syncImageAvailable, m.api.syncRender})

\* Initialize uploading the vertex and index buffers before the command pool exists
Initialize_BuffersBeforeCommandPool(m, w, h, n, failAt) ==
    LET m0  == Then([m EXCEPT !.log = <<"CreateWindow">>],
                    LAMBDA v : CreateDeviceObjects(v, h, failAt))
        m1  == Try(m0,  LAMBDA v : CreateSwapChain(v, w, n, failAt = "CreateSwapChain"))
        m2  == Try(m1,  LAMBDA v : CreateImageViews(v, failAt = "CreateImageViews"))
        m3  == Try(m2,  LAMBDA v : CreateRenderPass(v, failAt = "CreateRenderPass"))
        m4  == Try(m3,  LAMBDA v : CreateDescriptorSetLayout(v, failAt = "CreateDescriptorSetLayout"))
        m5  == Try(m4,  LAMBDA v : CreateGraphicsPipeline(v, failAt))
        m6  == Try(m5,  LAMBDA v : CreateFramebuffers(v, failAt = "CreateFramebuffers"))
        m7  == Try(m6,  CreateGeometryBuffers)
        m8  == Try(m7,  CreateCommandPool)
        m9  == Try(m8,  LAMBDA v : CreateCommandBuffers(v, failAt = "CreateCommandBuffers"))
        m10 == Try(m9,  LAMBDA v : RecordCommandBuffers(v, failAt = "RecordCommandBuffers"))
    IN  Try(m10, CreateSemaphores)

\* Initialize, from CreateInstance on (CreateWindow is in the action)
Initialize(m, w, h, n, failAt) ==
    LET m0  == Then([m EXCEPT !.log = <<"CreateWindow">>],
                    LAMBDA v : CreateDeviceObjects(v, h, failAt))
        m1  == Try(m0,  LAMBDA v : CreateSwapChain(v, w, n, failAt = "CreateSwapChain"))
        m2  == Try(m1,  LAMBDA v : CreateImageViews(v, failAt = "CreateImageViews"))
        m3  == Try(m2,  LAMBDA v : CreateRenderPass(v, failAt = "CreateRenderPass"))
        m4  == Try(m3,  LAMBDA v : CreateDescriptorSetLayout(v, failAt = "CreateDescriptorSetLayout"))
        m5  == Try(m4,  LAMBDA v : CreateGraphicsPipeline(v, failAt))
        m6  == Try(m5,  LAMBDA v : CreateFramebuffers(v, failAt = "CreateFramebuffers"))
        m7  == Try(m6,  CreateCommandPool)
        m8  == Try(m7,  CreateGeometryBuffers)
        m9  == Try(m8,  LAMBDA v : CreateCommandBuffers(v, failAt = "CreateCommandBuffers"))
        m10 == Try(m9,  LAMBDA v : RecordCommandBuffers(v, failAt = "RecordCommandBuffers"))
    IN  Try(m10, CreateSemaphores)

\* Window::Close, called from Destroy after the instance is destroyed
Close(m) == Log(m, "Close")

\* Destroy
Destroy(m, h, pfn, clbk) ==
    LET m1 == Then(Log([m EXCEPT !.log = <<>>], "vkDeviceWaitIdle"), DestroySwapChain)
        m2 == Then(m1, DestroyDescriptorSetLayout)
        m3 == Then(m2, DestroyGeometryBuffers)
        m4 == Then(m3, DestroySemaphores)
        m5 == Then(m4, DestroyCommandPool)
        m6 == Then(m5, DestroyDevice)
        m7 == Then(m6, LAMBDA v : DestroyValidationErrorCallback(v, h, pfn, clbk))
        m8 == Try(m7, DestroySurface)
        m9 == Try(m8, DestroyInstance)
    IN  Try(m9, Close)

(***************************************************************************)
(* The inputs of the environment.                                          *)
(***************************************************************************)
Extent(w, h) == [width |-> w, height |-> h]

\* the window dimensions Initialize is called with
InitialDims == {Extent(1, 1)}
\* the dimensions a resize notification carries; 0 is a minimized window
ResizeDims == {0, MaxExtent}
\* the surface capabilities a device reports
SurfaceCaps(minCount, maxCount, current) ==
    [minImageCount |-> minCount, maxImageCount |-> maxCount, currentExtent |-> current,
     minImageExtent |-> Extent(1, 1), maxImageExtent |-> Extent(MaxExtent - 1, MaxExtent - 1)]
\* a queue family as vkGetPhysicalDeviceQueueFamilyProperties and
\* vkGetPhysicalDeviceSurfaceSupportKHR describe it
QueueFamily(queueCount, queueFlags, bPresentationSupport) ==
    [queueCount |-> queueCount, queueFlags |-> queueFlags,
     bPresentationSupport |-> bPresentationSupport]
\* a family for graphics and presentation, one for graphics only, one that
\* presents but has no graphics, and one without queues
GraphicsPresentFamily == QueueFamily(1, {VK_QUEUE_GRAPHICS_BIT, VK_QUEUE_COMPUTE_BIT}, TRUE)
GraphicsOnlyFamily == QueueFamily(1, {VK_QUEUE_GRAPHICS_BIT}, FALSE)
ComputePresentFamily == QueueFamily(1, {VK_QUEUE_COMPUTE_BIT}, TRUE)
EmptyFamily == QueueFamily(0, {VK_QUEUE_GRAPHICS_BIT}, TRUE)

\* a physical device as the vkGetPhysicalDevice* calls describe it
PhysicalDevice(deviceType, geometryShader, aQueueFamilies, aAvailableExtensions, support) ==
    [deviceType |-> deviceType, geometryShader |-> geometryShader,
     aQueueFamilies |-> aQueueFamilies, aAvailableExtensions |-> aAvailableExtensions,
     caps |-> support.caps, formats |-> support.formats, modes |-> support.modes]

\* what QuerySwapChainSupport finds for a device and the surface: capabilities,
\* surface formats and present modes
DeviceReports ==
    {[caps    |-> SurfaceCaps(2, 0, Extent(UINT32_MAX, UINT32_MAX)),
      formats |-> <<[format |-> VK_FORMAT_UNDEFINED, colorSpace |-> VK_COLOR_SPACE_SRGB_NONLINEAR_KHR]>>,
      modes   |-> <<VK_PRESENT_MODE_FIFO_KHR>>],
     [caps    |-> SurfaceCaps(2, 2, Extent(1, 1)),
      formats |-> <<[format |-> VK_FORMAT_R8G8B8A8_UNORM, colorSpace |-> VK_COLOR_SPACE_SRGB_NONLINEAR_KHR],
                    [format |-> VK_FORMAT_B8G8R8A8_UNORM, colorSpace |-> VK_COLOR_SPACE_SCRGB_NONLINEAR_EXT]>>,
      modes   |-> <<VK_PRESENT_MODE_IMMEDIATE_KHR, VK_PRESENT_MODE_MAILBOX_KHR>>],
     [caps    |-> SurfaceCaps(1, 0, Extent(1, 1)),
      formats |-> <<[format |-> VK_FORMAT_R8G8B8A8_UNORM, colorSpace |-> VK_COLOR_SPACE_SRGB_NONLINEAR_KHR]>>,
      modes   |-> <<VK_PRESENT_MODE_FIFO_KHR, VK_PRESENT_MODE_IMMEDIATE_KHR>>]}

\* the queue families that go with a report: one family for both roles, two
\* families with one role each, or a family without queues before the one used
FamiliesOf(support) ==
    IF support.caps.maxImageCount > 0 THEN <<GraphicsOnlyFamily, ComputePresentFamily>>
    ELSE IF support.caps.minImageCount = 1 THEN <<EmptyFamily, GraphicsPresentFamily>>
    ELSE <<GraphicsPresentFamily>>

\* the machines the program runs on: a discrete GPU, after an integrated one
\* on some of them
InstalledDevices ==
    {IF support.caps.maxImageCount > 0
     THEN <<PhysicalDevice(VK_PHYSICAL_DEVICE_TYPE_INTEGRATED_GPU, TRUE, <<GraphicsPresentFamily>>,
                           {VK_KHR_SWAPCHAIN_EXTENSION_NAME}, support),
            PhysicalDevice(VK_PHYSICAL_DEVICE_TYPE_DISCRETE_GPU, TRUE, FamiliesOf(support),
                           {VK_KHR_SWAPCHAIN_EXTENSION_NAME}, support)>>
     ELSE <<PhysicalDevice(VK_PHYSICAL_DEVICE_TYPE_DISCRETE_GPU, TRUE, FamiliesOf(support),
                           {VK_KHR_SWAPCHAIN_EXTENSION_NAME}, support)>> :
        support \in DeviceReports}
\* an installation: the option, the instance extensions and layers of the
\* driver, the physical devices
Host(bUseValidationLayers, aAvailableExtensions, availableLayers, aPhysicalDevices) ==
    [bUseValidationLayers |-> bUseValidationLayers,
     aAvailableExtensions |-> aAvailableExtensions,
     availableLayers |-> availableLayers,
     aPhysicalDevices |-> aPhysicalDevices]

InstanceExtensions == {VK_KHR_SURFACE_EXTENSION_NAME, VK_KHR_WIN32_SURFACE_EXTENSION_NAME,
                       VK_EXT_DEBUG_REPORT_EXTENSION_NAME}

\* the installations the program is started on: with the validation layers
\* in use where the surface needs two images, without them where it needs
\* one; installations that lack a layer, an extension, a device, or a
\* suitable device
Installations ==
    {Host(aPhysicalDevices[Len(aPhysicalDevices)].caps.minImageCount = 2,
          IF aPhysicalDevices[Len(aPhysicalDevices)].caps.minImageCount = 2
          THEN InstanceExtensions ELSE glfwGetRequiredInstanceExtensions,
          validationLayers, aPhysicalDevices) : aPhysicalDevices \in InstalledDevices}
    \cup {Host(TRUE, InstanceExtensions, {}, aPhysicalDevices) :
                aPhysicalDevices \in InstalledDevices}
    \cup {Host(FALSE, {VK_KHR_SURFACE_EXTENSION_NAME}, {}, aPhysicalDevices) :
                aPhysicalDevices \in InstalledDevices}
    \cup {Host(FALSE, glfwGetRequiredInstanceExtensions, {}, <<>>)}
    \cup {Host(FALSE, glfwGetRequiredInstanceExtensions, {},
               <<PhysicalDevice(VK_PHYSICAL_DEVICE_TYPE_INTEGRATED_GPU, TRUE,
                                <<GraphicsPresentFamily>>, {VK_KHR_SWAPCHAIN_EXTENSION_NAME},
                                support)>>) : support \in DeviceReports}

\* the number of images a new swap chain can have: at least the count requested
ImageCounts(a) == {n \in 1..MaxImages : n >= SelectImageCount(a.capsSurface)}

(***************************************************************************)
(* Initial state: the GfxAPIVulkan object after its constructor.           *)
(***************************************************************************)
ConstructedApi ==
    [vkiInstance |-> VK_NULL_HANDLE, sfcSurface |-> VK_NULL_HANDLE,
     ciInstance |-> [ppEnabledExtensionNames |-> {}, ppEnabledLayerNames |-> {}],
     clbkValidation |-> GarbageHandle,
     vkdevPhysicalDevice |-> VK_NULL_HANDLE,
     iGraphicsQueueFamily |-> -1, iPresentationQueueFamily |-> -1,
     vkdevLogicalDevice |-> VK_NULL_HANDLE,
     qGraphicsQueue |-> VK_NULL_HANDLE, qPresentationQueue |-> VK_NULL_HANDLE,
     capsSurface |-> [minImageCount |-> 0, maxImageCount |-> 0,
                      currentExtent |-> Extent(0, 0), minImageExtent |-> Extent(0, 0),
                      maxImageExtent |-> Extent(0, 0)],
     aFormats |-> <<>>, aPresentModes |-> <<>>,
     sfmtFormat |-> [format |-> VK_FORMAT_UNDEFINED, colorSpace |-> VK_COLOR_SPACE_SRGB_NONLINEAR_KHR],
     spmPresentMode |-> VK_PRESENT_MODE_FIFO_KHR,
     sexExtent |-> Extent(0, 0),
     ciSwapChain |-> [minImageCount |-> 0, imageFormat |-> VK_FORMAT_UNDEFINED,
                      imageExtent |-> Extent(0, 0),
                      imageSharingMode |-> VK_SHARING_MODE_EXCLUSIVE,
                      queueFamilyIndexCount |-> 0, pQueueFamilyIndices |-> <<>>],
     swcSwapChain |-> VK_NULL_HANDLE, aimgImages |-> <<>>, aimgvImageViews |-> <<>>,
     vkpassRenderPass |-> VK_NULL_HANDLE, vkhDescriptorSetLayout |-> VK_NULL_HANDLE,
     vkplPipelineLayout |-> VK_NULL_HANDLE, vkgpipePipeline |-> VK_NULL_HANDLE,
     atgtFramebuffers |-> <<>>, vkhCommandPool |-> VK_NULL_HANDLE,
     acbufCommandBuffers |-> <<>>, recorded |-> <<>>,
     ciImageViews |-> <<>>, descColorAttachment |-> [format |-> VK_FORMAT_UNDEFINED],
     ciRenderPass |-> [dependencyCount |-> 0, pDependencies |-> <<>>],
     ciViewportState |-> [vpViewport  |-> [width |-> Float(0), height |-> Float(0)],
                          rectScissor |-> [extent |-> Extent(0, 0)]],
     ciFramebuffers |-> <<>>,
     vkhVertexBuffer |-> VK_NULL_HANDLE, vkhVertexBufferMemory |-> VK_NULL_HANDLE,
     vkhIndexBuffer |-> VK_NULL_HANDLE, vkhIndexBufferMemory |-> VK_NULL_HANDLE,
     syncImageAvailable |-> VK_NULL_HANDLE, syncRender |-> VK_NULL_HANDLE]

Constructed ==
    /\ pc = "Constructed"
    /\ api = ConstructedApi
    /\ wnd = Extent(0, 0)
    /\ sys = Extent(0, 0)
    /\ live = [k \in Kinds |-> {}]
    /\ gen = 0
    /\ log = <<>>
    /\ logOp = "none"
    /\ error = NoError
    /\ misuse = {}
    /\ iImage = 0
    /\ statusResult = NoResult
    /\ acquireResult = NoResult
    /\ presentResult = NoResult
    /\ callLog = <<>>
    /\ imageCounts = <<>>
    /\ frame = NoFrame
    /\ inFlight = 0

\* the installation of the specifications that apply one function
AnyHost == Host(FALSE, glfwGetRequiredInstanceExtensions, {}, <<>>)

Init == Constructed /\ host \in Installations /\ q = NoQuery

Current == Machine(api, live, gen, log, error, misuse)

\* the machine state r becomes the state; the program goes on at `next`, or has
\* ended with an uncaught exception
Becomes(r, next) ==
    /\ api' = r.api
    /\ live' = r.live
    /\ gen' = r.gen
    /\ log' = r.log
    /\ error' = r.error
    /\ misuse' = r.misuse
    /\ pc' = IF Failed(r) THEN "Terminated" ELSE next

\* a build that completed adds its image count to the history
Built(r) == IF Failed(r) THEN imageCounts ELSE Append(imageCounts, Len(r.api.aimgImages))

(***************************************************************************)
(* Actions.                                                                *)
(***************************************************************************)

\* Application::InitializeGraphics: GfxAPIVulkan::Initialize(dimWidth, dimHeight)
DoInitialize ==
    /\ pc = "Constructed"
    /\ \E w \in InitialDims,
          failAt \in ChainFailPoints \cup {"CreateInstance", "CreateLogicalDevice", "none"},
          n \in 1..MaxImages :
             \E r \in {Initialize(Current, w, host, n, failAt)} :
                 /\ n \in ImageCounts(r.api)
                 /\ Becomes(r, "Running")
                 /\ imageCounts' = Built(r)
                 /\ wnd' = w
                 /\ sys' = w
    /\ logOp' = "Initialize"
    /\ UNCHANGED <<iImage, statusResult, acquireResult, presentResult, callLog, frame,
                   inFlight, host, q>>

\* what a read of the field yields: its value, or any value if the field was
\* never written
Indeterminate(field) ==
    IF field = GarbageHandle THEN {VK_NULL_HANDLE, GarbageHandle} ELSE {field}

\* Application::Cleanup: GfxAPIVulkan::Destroy
DoDestroy ==
    /\ pc = "Running"
    /\ \E pfn \in BOOLEAN, clbk \in Indeterminate(api.clbkValidation) :
          \E r \in {Destroy(Current, host, pfn, clbk)} : Becomes(r, "Destroyed")
    /\ logOp' = "Destroy"
    /\ inFlight' = 0
    /\ UNCHANGED <<wnd, sys, iImage, statusResult, acquireResult, presentResult, callLog,
                   imageCounts, frame, host, q>>

\* Window::UpdateDimensions: the Window object takes the system window's size
UpdateDimensions(s) == s

\* the window system resizes the window to (width, height) and GLFW calls
\* OnWindowResizedCallback(window, width, height), which calls OnWindowResized
OnWindowResizedCallback ==
    /\ pc = "Running"
    /\ \E width \in ResizeDims, height \in ResizeDims :
          /\ sys' = Extent(width, height)
          /\ IF width = 0 \/ height = 0
             THEN UNCHANGED <<api, live, gen, log, logOp, error, misuse, pc, wnd, imageCounts,
                              inFlight>>
             ELSE /\ gen < MaxBuilds
                  /\ inFlight' = 0
                  /\ wnd' = UpdateDimensions(sys')
                  /\ logOp' = "InitializeSwapChain"
                  /\ \E failAt \in ChainFailPoints \cup {"none"}, n \in ImageCounts(api) :
                        \E r \in {InitializeSwapChain(Current, wnd', n, failAt)} :
                            Becomes(r, "Running") /\ imageCounts' = Built(r)
    /\ UNCHANGED <<iImage, statusResult, acquireResult, presentResult, callLog, frame, host,
                   q>>

\* Render's test of a status that is not VK_ERROR_OUT_OF_DATE_KHR, taking only
\* VK_SUCCESS for a success
Unrecoverable_SuccessOnly(status) == status # VK_SUCCESS

\* Render's test of a status that is not VK_ERROR_OUT_OF_DATE_KHR: the
\* operation failed with no way to recover
Unrecoverable(status) == status # VK_SUCCESS /\ status # VK_SUBOPTIMAL_KHR

\* the results the driver can report while the model has builds left
Reportable == IF gen < MaxBuilds THEN VkResults ELSE VkResults \ {VK_ERROR_OUT_OF_DATE_KHR}

\* UpdateUniformBuffer, the first call of Render (src/unnamed/part_000 line 1939):
\* vkMapMemory, memcpy and vkUnmapMemory of the uniform buffer's memory, done
\* while `executing` submitted frames have not been waited for
UpdateUniformBuffer(executing) ==
    [memory |-> "vkhUniformBufferMemory", executing |-> executing]

\* Render, from its start to the end of the handling of the acquire status
\* (GfxAPIVulkan.cpp lines 1538-1548). iImage is written by a successful
\* acquire only; otherwise it keeps the indeterminate value of an uninitialized local.
RenderAcquire ==
    /\ pc = "Running"
    /\ \E status \in Reportable, failAt \in ChainFailPoints \cup {"none"}, n \in ImageCounts(api) :
          /\ statusResult' = status
          /\ acquireResult' = status
          /\ IF status \in {VK_SUCCESS, VK_SUBOPTIMAL_KHR}
             THEN iImage' \in 0..(Len(api.aimgImages) - 1)
             ELSE iImage' \in 0..MaxImages
          /\ IF status = VK_ERROR_OUT_OF_DATE_KHR
             THEN \E r \in {InitializeSwapChain(Current, wnd, n, failAt)} :
                      /\ Becomes(r, "Submit")
                      /\ imageCounts' = Built(r)
                      /\ logOp' = "InitializeSwapChain"
                      /\ callLog' = <<"vkAcquireNextImageKHR", "InitializeSwapChain">>
                      /\ inFlight' = 0
             ELSE /\ failAt = "none" /\ n = Len(api.aimgImages)
                  /\ callLog' = <<"vkAcquireNextImageKHR">>
                  /\ IF Unrecoverable(status)
                     THEN Becomes(Throw(Current, "Failed to acquire swap chain image"), "Submit")
                     ELSE Becomes(Current, "Submit")
                  /\ UNCHANGED <<imageCounts, logOp, inFlight>>
          /\ frame' = [NoFrame EXCEPT !.uniform = UpdateUniformBuffer(inFlight), !.acquire =
                          [swapchain |-> api.swcSwapChain,
                           semaphore |-> api.syncImageAvailable,
                           pImageIndex |-> IF status \in {VK_SUCCESS, VK_SUBOPTIMAL_KHR}
                                           THEN iImage' ELSE -1]]
    /\ presentResult' = NoResult
    /\ UNCHANGED <<wnd, sys, host, q>>

\* acbufCommandBuffers[i]: outside the vector the read yields no object's handle
CommandBufferAt(a, i) ==
    IF i + 1 \in 1..Len(a.acbufCommandBuffers) THEN a.acbufCommandBuffers[i + 1] ELSE GarbageHandle

\* Render: vkQueueSubmit of acbufCommandBuffers[iImage] (lines 1551-1577)
RenderSubmit ==
    /\ pc = "Submit"
    /\ callLog' = Append(callLog, "vkQueueSubmit")
    /\ frame' = [frame EXCEPT !.submit =
                     [queue |-> api.qGraphicsQueue,
                      pWaitSemaphores |-> <<api.syncImageAvailable>>,
                      iCommandBuffer |-> iImage,
                      pCommandBuffers |-> <<CommandBufferAt(api, iImage)>>,
                      pSignalSemaphores |-> <<api.syncRender>>]]
    /\ \E ok \in BOOLEAN :
          IF ok THEN Becomes(Current, "Present") /\ inFlight' = inFlight + 1
          ELSE /\ Becomes(Throw(Current, "Failed to submit draw command buffer"), "Present")
               /\ inFlight' = inFlight
    /\ UNCHANGED <<wnd, sys, logOp, iImage, statusResult, acquireResult, presentResult,
                   imageCounts, host, q>>

\* Render: vkQueuePresentKHR and the handling of its status (lines 1579-1607)
RenderPresent ==
    /\ pc = "Present"
    /\ \E status \in Reportable, failAt \in ChainFailPoints \cup {"none"}, n \in ImageCounts(api) :
          /\ statusResult' = status
          /\ presentResult' = status
          /\ IF status = VK_ERROR_OUT_OF_DATE_KHR
             THEN \E r \in {InitializeSwapChain(Current, wnd, n, failAt)} :
                      /\ Becomes(r, "WaitIdle")
                      /\ imageCounts' = Built(r)
                      /\ logOp' = "InitializeSwapChain"
                      /\ callLog' = callLog \o <<"vkQueuePresentKHR", "InitializeSwapChain">>
                      /\ inFlight' = 0
             ELSE /\ failAt = "none" /\ n = Len(api.aimgImages)
                  /\ callLog' = Append(callLog, "vkQueuePresentKHR")
                  /\ IF Unrecoverable(status)
                     THEN Becomes(Throw(Current, "Failed to present swap chain image"), "WaitIdle")
                     ELSE Becomes(Current, "WaitIdle")
                  /\ UNCHANGED <<imageCounts, logOp, inFlight>>
    /\ frame' = [frame EXCEPT !.present =
                     [queue |-> api.qPresentationQueue,
                      pWaitSemaphores |-> frame.submit.pSignalSemaphores,
                      pSwapchains |-> <<api.swcSwapChain>>,
                      pImageIndices |-> <<iImage>>]]
    /\ UNCHANGED <<wnd, sys, iImage, acquireResult, host, q>>

\* Render returning without the final vkDeviceWaitIdle
RenderWaitIdle_NoWait ==
    /\ pc = "WaitIdle"
    /\ pc' = "Running"
    /\ UNCHANGED <<api, wnd, sys, live, gen, log, logOp, error, misuse, iImage, statusResult,
                   acquireResult, presentResult, imageCounts, frame, callLog,
                   inFlight, host, q>>

\* Render: the final vkDeviceWaitIdle and the return (lines 1610-1613)
RenderWaitIdle ==
    /\ pc = "WaitIdle"
    /\ callLog' = Append(callLog, "vkDeviceWaitIdle")
    /\ pc' = "Running"
    /\ inFlight' = 0
    /\ UNCHANGED <<api, wnd, sys, live, gen, log, logOp, error, misuse, iImage, statusResult,
                   acquireResult, presentResult, imageCounts, frame, host, q>>

Next ==
    \/ DoInitialize
    \/ OnWindowResizedCallback
    \/ RenderAcquire
    \/ RenderSubmit
    \/ RenderPresent
    \/ RenderWaitIdle
    \/ DoDestroy

Spec == Init /\ [][Next]_vars

(***************************************************************************)
(* Specifications that apply one negotiation function to every input of a  *)
(* bounded set; the GfxAPIVulkan object stays as constructed.              *)
(***************************************************************************)
progVars == <<pc, api, wnd, sys, live, gen, log, logOp, error, misuse, iImage, statusResult,
              acquireResult, presentResult, callLog, imageCounts, frame, inFlight, host>>

Query(fn, in) == [fn |-> fn, in |-> in, out |-> <<>>]
Asked(fn) == q.fn = fn /\ q.out = <<>>
Answered(fn) == q.fn = fn /\ q.out # <<>>
Answer(out) == q' = [q EXCEPT !.out = <<out>>] /\ UNCHANGED progVars

\* the lists of surface formats a surface can report (never empty for a selected device)
FormatInputs == SeqsOf(SurfaceFormats, 1, MaxFormats)
InitFormat == Constructed /\ host = AnyHost /\ q \in {Query("SelectSwapChainFormat", f) : f \in FormatInputs}
ApplySelectSwapChainFormat ==
    Asked("SelectSwapChainFormat") /\ Answer(SelectSwapChainFormat(q.in))
SpecFormat == InitFormat /\ [][ApplySelectSwapChainFormat]_vars

\* the lists of present modes a surface can report
PresentModeInputs == SeqsOf(PresentModes, 0, MaxModes)
InitPresentMode == Constructed /\ host = AnyHost /\ q \in {Query("SelectSwapChainPresentMode", p) : p \in PresentModeInputs}
ApplySelectSwapChainPresentMode ==
    Asked("SelectSwapChainPresentMode") /\ Answer(SelectSwapChainPresentMode(q.in))
SpecPresentMode == InitPresentMode /\ [][ApplySelectSwapChainPresentMode]_vars

\* the extents a surface can report as bounds: min <= max in both components
ExtentBounds == {b \in [lo : [width : 1..MaxExtent, height : 1..MaxExtent],
                        hi : [width : 1..MaxExtent, height : 1..MaxExtent]] :
                    b.lo.width <= b.hi.width /\ b.lo.height <= b.hi.height}
\* capability reports and window dimensions; a window can be larger than the
\* largest extent and a minimized one has a zero dimension
ExtentInputs == {[caps |-> [currentExtent |-> c, minImageExtent |-> b.lo, maxImageExtent |-> b.hi],
                  width |-> w, height |-> h] :
                    c \in {Extent(UINT32_MAX, UINT32_MAX), Extent(1, 1)}, b \in ExtentBounds,
                    w \in 0..(MaxExtent + 1), h \in 0..(MaxExtent + 1)}
InitExtent == Constructed /\ host = AnyHost /\ q \in {Query("SelectSwapChainExtent", e) : e \in ExtentInputs}
ApplySelectSwapChainExtent ==
    Asked("SelectSwapChainExtent") /\ Answer(SelectSwapChainExtent(q.in.caps, q.in.width, q.in.height))
SpecExtent == InitExtent /\ [][ApplySelectSwapChainExtent]_vars

\* the image count limits a surface can report: maxImageCount is 0 (no limit)
\* or at least minImageCount
ImageCountInputs == {[minImageCount |-> a, maxImageCount |-> b] :
                        a \in 1..MaxCount, b \in 0..MaxCount} \
                    {c \in [minImageCount : 1..MaxCount, maxImageCount : 1..MaxCount] :
                        c.maxImageCount < c.minImageCount}
InitImageCount == Constructed /\ host = AnyHost /\ q \in {Query("SelectImageCount", c) : c \in ImageCountInputs}
ApplySelectImageCount ==
    Asked("SelectImageCount") /\ Answer(SelectImageCount(q.in))
SpecImageCount == InitImageCount /\ [][ApplySelectImageCount]_vars

\* the memory type tables a device can report, the type filters of a resource
\* (a filter can name types the device does not have) and the property requests
MemoryTypeInputs ==
    {[filter |-> f, props |-> pr, memoryTypes |-> t] :
        f \in SUBSET (0..MaxMemoryTypes), pr \in SUBSET MemoryPropertyFlags,
        t \in SeqsOf(SUBSET MemoryPropertyFlags, 0, MaxMemoryTypes)}
InitMemoryType == Constructed /\ host = AnyHost /\ q \in {Query("FindMemoryType", i) : i \in MemoryTypeInputs}
ApplyFindMemoryType ==
    Asked("FindMemoryType") /\ Answer(FindMemoryType(q.in.filter, q.in.props, q.in.memoryTypes))
SpecMemoryType == InitMemoryType /\ [][ApplyFindMemoryType]_vars

\* the queue families a device can have: with or without queues, with graphics
\* or another capability or both, with or without presentation to the surface
QueueFamilies ==
    {QueueFamily(n, f, pr) : n \in 0..1,
                             f \in (SUBSET {VK_QUEUE_GRAPHICS_BIT, VK_QUEUE_COMPUTE_BIT}) \ {{}},
                             pr \in BOOLEAN}
QueueFamilyInputs == SeqsOf(QueueFamilies, 0, MaxFamilies)
InitQueueFamilies == Constructed /\ host = AnyHost /\ q \in {Query("FindQueueFamilies", f) : f \in QueueFamilyInputs}
ApplyFindQueueFamilies ==
    /\ Asked("FindQueueFamilies")
    /\ \E r \in {FindQueueFamilies(Current, [aQueueFamilies |-> q.in])} :
          Answer([iGraphicsQueueFamily |-> r.api.iGraphicsQueueFamily,
                  iPresentationQueueFamily |-> r.api.iPresentationQueueFamily])
SpecQueueFamilies == InitQueueFamilies /\ [][ApplyFindQueueFamilies]_vars

\* the devices an instance can enumerate: of the required type and feature or
\* not, with one of four sets of queue families, with or without the swap
\* chain extension, with or without surface formats and present modes
CandidateFamilies ==
    {<<GraphicsPresentFamily>>, <<GraphicsOnlyFamily>>, <<ComputePresentFamily>>,
     <<GraphicsOnlyFamily, ComputePresentFamily>>}
CandidateSupport ==
    {[caps |-> SurfaceCaps(2, 0, Extent(1, 1)), formats |-> f, modes |-> p] :
        f \in {<<>>, <<[format |-> VK_FORMAT_B8G8R8A8_UNORM, colorSpace |-> VK_COLOR_SPACE_SRGB_NONLINEAR_KHR]>>}, p \in {<<>>, <<VK_PRESENT_MODE_FIFO_KHR>>}}
    \ {[caps |-> SurfaceCaps(2, 0, Extent(1, 1)), formats |-> <<>>, modes |-> <<>>]}
CandidateDevices ==
    {PhysicalDevice(t.deviceType, t.geometryShader, f, e, s) :
        t \in {[deviceType |-> VK_PHYSICAL_DEVICE_TYPE_DISCRETE_GPU, geometryShader |-> TRUE],
                [deviceType |-> VK_PHYSICAL_DEVICE_TYPE_DISCRETE_GPU, geometryShader |-> FALSE],
                [deviceType |-> VK_PHYSICAL_DEVICE_TYPE_INTEGRATED_GPU, geometryShader |-> TRUE]},
        f \in CandidateFamilies, e \in {{}, {VK_KHR_SWAPCHAIN_EXTENSION_NAME}},
        s \in CandidateSupport}
DeviceInputs == SeqsOf(CandidateDevices, 0, MaxDevices)
InitSelectDevice == Constructed /\ host = AnyHost /\ q \in {Query("SelectPhysicalDevice", ds) : ds \in DeviceInputs}
ApplySelectPhysicalDevice ==
    /\ Asked("SelectPhysicalDevice")
    /\ \E r \in {SelectPhysicalDevice(Current, q.in)} :
          Answer([error |-> r.error,
                  vkdevPhysicalDevice |-> r.api.vkdevPhysicalDevice,
                  iGraphicsQueueFamily |-> r.api.iGraphicsQueueFamily,
                  iPresentationQueueFamily |-> r.api.iPresentationQueueFamily])
SpecSelectDevice == InitSelectDevice /\ [][ApplySelectPhysicalDevice]_vars

\* CreateInstance on every installation: the option set or not, any of the
\* instance extensions and of the layers available, the driver call failing or not
InstanceInputs ==
    {[host |-> Host(b, e, l, <<>>), fail |-> f] :
        b \in BOOLEAN, e \in SUBSET InstanceExtensions, l \in SUBSET validationLayers,
        f \in BOOLEAN}
InitInstance == Constructed /\ host = AnyHost /\ q \in {Query("CreateInstance", i) : i \in InstanceInputs}
ApplyCreateInstance ==
    /\ Asked("CreateInstance")
    /\ \E r \in {CreateInstance(Current, q.in.host, q.in.fail)} :
          Answer([error |-> r.error, instances |-> r.live["instance"],
                  ciInstance |-> r.api.ciInstance])
SpecInstance == InitInstance /\ [][ApplyCreateInstance]_vars

(***************************************************************************)
(* Staging uploads: the vertex, the index and the texture data.            *)
(***************************************************************************)

VK_IMAGE_LAYOUT_UNDEFINED == "VK_IMAGE_LAYOUT_UNDEFINED"
VK_IMAGE_LAYOUT_TRANSFER_DST_OPTIMAL == "VK_IMAGE_LAYOUT_TRANSFER_DST_OPTIMAL"
VK_IMAGE_LAYOUT_SHADER_READ_ONLY_OPTIMAL == "VK_IMAGE_LAYOUT_SHADER_READ_ONLY_OPTIMAL"

\* the device as an upload finds it: the memory types of the physical device,
\* the one driver call that fails (if any), nothing created, no command buffer
\* (state), nothing recorded or submitted, no image
Uploader(memoryTypes, failAt) ==
    [memoryTypes |-> memoryTypes, failAt |-> failAt,
     log |-> <<>>, live |-> {}, memoryProps |-> {}, mapped |-> {}, data |-> {},
     state |-> "invalid", recording |-> <<>>, pending |-> <<>>, layout |-> <<>>,
     error |-> NoError, misuse |-> {}]

\* a driver call on an object
Call(u, call, object) == Log(u, <<call, object>>)

\* the objects the commands of a list read or write
Referenced(commands) == UNION {{commands[i].src, commands[i].dst} : i \in 1..Len(commands)}

\* the device executes one command: a copy gives the destination the source's
\* contents, a barrier moves the image from its old layout to the new one
Execute(u, command) ==
    IF command.cmd = "vkCmdPipelineBarrier"
    THEN [u EXCEPT !.layout = Append(@, command.newLayout),
                   !.misuse = @ \cup
                       IF command.oldLayout \in {VK_IMAGE_LAYOUT_UNDEFINED, u.layout[Len(u.layout)]}
                       THEN {} ELSE {<<"oldLayout", command.dst>>}]
    ELSE [u EXCEPT !.data = IF command.src \in u.data THEN @ \cup {command.dst}
                                                    ELSE @ \ {command.dst},
                   !.misuse = @ \cup
                       IF command.cmd = "vkCmdCopyBufferToImage"
                          /\ u.layout[Len(u.layout)] # VK_IMAGE_LAYOUT_TRANSFER_DST_OPTIMAL
                       THEN {<<"dstImageLayout", command.dst>>} ELSE {}]

RECURSIVE ExecuteAll(_, _)
ExecuteAll(u, commands) ==
    IF commands = <<>> THEN u
    ELSE ExecuteAll(Execute(u, Head(commands)), Tail(commands))

\* the call fails in this run; its result is looked at only where the code does
Fails(u, call, object) == u.failAt = <<call, object>>

\* vkEndCommandBuffer: a command buffer that was recording can be executed
vkEndCommandBuffer(u) ==
    [Call(u, "vkEndCommandBuffer", "vkhCommandBuffer") EXCEPT
        !.state = IF u.state = "recording" /\ ~Fails(u, "vkEndCommandBuffer", "vkhCommandBuffer")
                  THEN "executable" ELSE "invalid"]

\* vkQueueSubmit of the command buffer: the commands of an executable command
\* buffer are pending, unless the submission fails
vkQueueSubmit(u) ==
    [Call(u, "vkQueueSubmit", "qGraphicsQueue") EXCEPT
        !.pending = IF u.state = "executable" /\ ~Fails(u, "vkQueueSubmit", "qGraphicsQueue")
                    THEN @ \o u.recording ELSE @,
        !.recording = <<>>]

\* vkQueueWaitIdle: returns when every pending command has been executed, or
\* fails because the device is lost and the pending commands with it
vkQueueWaitIdle(u) ==
    IF Fails(u, "vkQueueWaitIdle", "qGraphicsQueue")
    THEN [Call(u, "vkQueueWaitIdle", "qGraphicsQueue") EXCEPT !.pending = <<>>]
    ELSE [ExecuteAll(Call(u, "vkQueueWaitIdle", "qGraphicsQueue"), u.pending) EXCEPT
             !.pending = <<>>]

\* vkDestroyBuffer / vkFreeMemory: the object must not be in use by a pending
\* command
vkRelease(u, call, object) ==
    [Call(u, call, object) EXCEPT
        !.live = @ \ {object},
        !.misuse = @ \cup IF object \in Referenced(u.pending)
                          THEN {<<"in use", object>>} ELSE {}]

\* FindMemoryType as CreateBuffer and CreateImage call it: every memory type
\* is allowed by the resource's memoryTypeBits
AllMemoryTypeBits(u) == 0..(Len(u.memoryTypes) - 1)

\* the memory allocation shared by CreateBuffer and CreateImage
AllocateAndBind(u, flgMemoryProperties, vkhResource, vkhMemory, bind, what) ==
    LET t == FindMemoryType(AllMemoryTypeBits(u), flgMemoryProperties, u.memoryTypes)
    IN  IF t.error # NoError THEN Throw(u, t.error)
        ELSE IF u.failAt = <<"vkAllocateMemory", vkhMemory>>
        THEN Throw(Call(u, "vkAllocateMemory", vkhMemory), what)
        ELSE [Call(Call(u, "vkAllocateMemory", vkhMemory), bind, vkhResource) EXCEPT
                 !.live = @ \cup {vkhMemory},
                 !.memoryProps = @ \cup {<<vkhResource, u.memoryTypes[t.ret + 1]>>}]

\* CreateBuffer
CreateBuffer(u, flgMemoryProperties, vkhBuffer, vkhMemory) ==
    IF u.failAt = <<"vkCreateBuffer", vkhBuffer>>
    THEN Throw(Call(u, "vkCreateBuffer", vkhBuffer), "Failed to create the vertex buffer")
    ELSE AllocateAndBind([Call(u, "vkCreateBuffer", vkhBuffer) EXCEPT !.live = @ \cup {vkhBuffer}],
                         flgMemoryProperties, vkhBuffer, vkhMemory, "vkBindBufferMemory",
                         "Unable to allocate memory for the vertex buffer")

\* CreateImage: the image starts in VK_IMAGE_LAYOUT_UNDEFINED
CreateImage(u, flgMemoryProperties, vkhImage, vkhMemory) ==
    IF u.failAt = <<"vkCreateImage", vkhImage>>
    THEN Throw(Call(u, "vkCreateImage", vkhImage), "Failed to create the image")
    ELSE AllocateAndBind([Call(u, "vkCreateImage", vkhImage) EXCEPT
                             !.live = @ \cup {vkhImage},
                             !.layout = <<VK_IMAGE_LAYOUT_UNDEFINED>>],
                         flgMemoryProperties, vkhImage, vkhMemory, "vkBindImageMemory",
                         "Unable to allocate memory for the image")

\* vkMapMemory, memcpy of the payload, vkUnmapMemory: when the mapping fails
\* pMappedMemory is not set and the payload does not reach the buffer
MapCopyUnmap(u, vkhMemory, vkhBuffer) ==
    LET u1 == Call(Call(Call(u, "vkMapMemory", vkhMemory), "memcpy", vkhMemory),
                   "vkUnmapMemory", vkhMemory)
    IN  IF Fails(u, "vkMapMemory", vkhMemory)
        THEN [u1 EXCEPT !.misuse = @ \cup {<<"pMappedMemory", vkhMemory>>}]
        ELSE [u1 EXCEPT !.data = @ \cup {vkhBuffer}]

\* vkAllocateCommandBuffers and vkBeginCommandBuffer of a one-time command buffer
AllocateAndBegin(u) ==
    [Call(Call(u, "vkAllocateCommandBuffers", "vkhCommandBuffer"),
          "vkBeginCommandBuffer", "vkhCommandBuffer") EXCEPT
        !.live = IF Fails(u, "vkAllocateCommandBuffers", "vkhCommandBuffer")
                 THEN @ ELSE @ \cup {"vkhCommandBuffer"},
        !.state = IF Fails(u, "vkAllocateCommandBuffers", "vkhCommandBuffer")
                     \/ Fails(u, "vkBeginCommandBuffer", "vkhCommandBuffer")
                  THEN "invalid" ELSE "recording",
        !.recording = <<>>]

\* a command recorded into the one-time command buffer, if it is recording
Record(u, command) ==
    [Call(u, command.cmd, command.dst) EXCEPT
        !.recording = IF u.state = "recording" THEN Append(@, command) ELSE @]

\* vkFreeCommandBuffers of the one-time command buffer
FreeOneTimeCommandBuffer(u) ==
    [Call(u, "vkFreeCommandBuffers", "vkhCommandBuffer") EXCEPT
        !.live = @ \ {"vkhCommandBuffer"}, !.state = "invalid"]

\* CopyBuffer that does not wait for the queue
CopyBuffer_NoWait(u, vkhSourceBuffer, vkhDestinationBuffer) ==
    LET u1 == Record(AllocateAndBegin(u), [cmd |-> "vkCmdCopyBuffer", src |-> vkhSourceBuffer,
                                           dst |-> vkhDestinationBuffer])
        u2 == vkQueueSubmit(vkEndCommandBuffer(u1))
    IN  FreeOneTimeCommandBuffer(u2)

\* CopyBuffer
CopyBuffer(u, vkhSourceBuffer, vkhDestinationBuffer) ==
    LET u1 == Record(AllocateAndBegin(u), [cmd |-> "vkCmdCopyBuffer", src |-> vkhSourceBuffer,
                                           dst |-> vkhDestinationBuffer])
        u2 == vkQueueSubmit(vkEndCommandBuffer(u1))
    IN  FreeOneTimeCommandBuffer(vkQueueWaitIdle(u2))

\* a staging upload into a buffer: CreateVertexBuffers and CreateIndexBuffers
\* differ only in the destination
UploadBuffer(u, vkhBuffer, vkhMemory) ==
    LET u1 == CreateBuffer(u, {VK_MEMORY_PROPERTY_HOST_VISIBLE_BIT,
                               VK_MEMORY_PROPERTY_HOST_COHERENT_BIT},
                           "vkhStagingBuffer", "vkhStagingMemory")
        u2 == Try(u1, LAMBDA v : MapCopyUnmap(v, "vkhStagingMemory", "vkhStagingBuffer"))
        u3 == Try(u2, LAMBDA v : CreateBuffer(v, {VK_MEMORY_PROPERTY_DEVICE_LOCAL_BIT},
                                              vkhBuffer, vkhMemory))
        u4 == Try(u3, LAMBDA v : CopyBuffer(v, "vkhStagingBuffer", vkhBuffer))
        u5 == Try(u4, LAMBDA v : vkRelease(v, "vkDestroyBuffer", "vkhStagingBuffer"))
    IN  Try(u5, LAMBDA v : vkRelease(v, "vkFreeMemory", "vkhStagingMemory"))

\* CreateVertexBuffers
CreateVertexBuffers(u) == UploadBuffer(u, "vkhVertexBuffer", "vkhVertexBufferMemory")

\* CreateIndexBuffers
CreateIndexBuffers(u) == UploadBuffer(u, "vkhIndexBuffer", "vkhIndexBufferMemory")

\* BeginOneTimeCommand
BeginOneTimeCommand(u) == AllocateAndBegin(u)

\* EndOneTimeCommand
EndOneTimeCommand(u) ==
    LET u1 == vkQueueSubmit(vkEndCommandBuffer(u))
    IN  FreeOneTimeCommandBuffer(vkQueueWaitIdle(u1))

\* TransitionImageLayout
TransitionImageLayout(u, vkhImage, imlOldLayout, imlNewLayout) ==
    EndOneTimeCommand(Record(BeginOneTimeCommand(u),
                             [cmd |-> "vkCmdPipelineBarrier", src |-> vkhImage, dst |-> vkhImage,
                              oldLayout |-> imlOldLayout, newLayout |-> imlNewLayout]))

\* CoypBufferToImage
CoypBufferToImage(u, vkhBuffer, vkhImage) ==
    EndOneTimeCommand(Record(BeginOneTimeCommand(u),
                             [cmd |-> "vkCmdCopyBufferToImage", src |-> vkhBuffer,
                              dst |-> vkhImage]))

\* CreateTextureImage
CreateTextureImage(u) ==
    IF u.failAt = <<"stbi_load", "imgRawData">>
    THEN Throw(Call(u, "stbi_load", "imgRawData"), "Failed to load the texture.")
    ELSE
    LET u1 == CreateBuffer(Call(u, "stbi_load", "imgRawData"),
                           {VK_MEMORY_PROPERTY_HOST_VISIBLE_BIT,
                            VK_MEMORY_PROPERTY_HOST_COHERENT_BIT},
                           "vkhStagingBuffer", "vkhStagingMemory")
        u2 == Try(u1, LAMBDA v : MapCopyUnmap(v, "vkhStagingMemory", "vkhStagingBuffer"))
        u3 == Try(u2, LAMBDA v : CreateImage(v, {VK_MEMORY_PROPERTY_DEVICE_LOCAL_BIT},
                                             "vkhImageData", "vkhImageMemory"))
        u4 == Try(u3, LAMBDA v : TransitionImageLayout(v, "vkhImageData",
                                     VK_IMAGE_LAYOUT_UNDEFINED,
                                     VK_IMAGE_LAYOUT_TRANSFER_DST_OPTIMAL))
        u5 == Try(u4, LAMBDA v : CoypBufferToImage(v, "vkhStagingBuffer", "vkhImageData"))
        u6 == Try(u5, LAMBDA v : vkRelease(v, "vkDestroyBuffer", "vkhStagingBuffer"))
    IN  Try(u6, LAMBDA v : vkRelease(v, "vkFreeMemory", "vkhStagingMemory"))

\* the three uploads, and the object each one fills
Uploads == {"CreateVertexBuffers", "CreateIndexBuffers", "CreateTextureImage"}
Destination(upload) ==
    CASE upload = "CreateVertexBuffers" -> "vkhVertexBuffer"
      [] upload = "CreateIndexBuffers" -> "vkhIndexBuffer"
      [] upload = "CreateTextureImage" -> "vkhImageData"

\* the driver calls of an upload that can fail: those whose result the code
\* tests, and those whose result it drops
UploadFailPoints ==
    {<<"vkMapMemory", "vkhStagingMemory">>,
     <<"vkAllocateCommandBuffers", "vkhCommandBuffer">>,
     <<"vkBeginCommandBuffer", "vkhCommandBuffer">>,
     <<"vkEndCommandBuffer", "vkhCommandBuffer">>,
     <<"vkQueueSubmit", "qGraphicsQueue">>, <<"vkQueueWaitIdle", "qGraphicsQueue">>,
     <<"vkCreateBuffer", "vkhStagingBuffer">>, <<"vkAllocateMemory", "vkhStagingMemory">>,
     <<"vkCreateBuffer", "vkhVertexBuffer">>, <<"vkAllocateMemory", "vkhVertexBufferMemory">>,
     <<"vkCreateBuffer", "vkhIndexBuffer">>, <<"vkAllocateMemory", "vkhIndexBufferMemory">>,
     <<"stbi_load", "imgRawData">>,
     <<"vkCreateImage", "vkhImageData">>, <<"vkAllocateMemory", "vkhImageMemory">>}

\* an upload on a device with any memory types, with at most one failing call
UploadInputs ==
    {[upload |-> up, memoryTypes |-> t, failAt |-> f] :
        up \in Uploads, t \in SeqsOf(SUBSET MemoryPropertyFlags, 0, MaxMemoryTypes),
        f \in UploadFailPoints \cup {<<"none", "none">>}}
InitUpload == Constructed /\ host = AnyHost /\ q \in {Query(i.upload, i) : i \in UploadInputs}
ApplyCreateVertexBuffers ==
    /\ Asked("CreateVertexBuffers")
    /\ Answer(CreateVertexBuffers(Uploader(q.in.memoryTypes, q.in.failAt)))
ApplyCreateIndexBuffers ==
    /\ Asked("CreateIndexBuffers")
    /\ Answer(CreateIndexBuffers(Uploader(q.in.memoryTypes, q.in.failAt)))
ApplyCreateTextureImage ==
    /\ Asked("CreateTextureImage")
    /\ Answer(CreateTextureImage(Uploader(q.in.memoryTypes, q.in.failAt)))
NextUpload == ApplyCreateVertexBuffers \/ ApplyCreateIndexBuffers \/ ApplyCreateTextureImage
SpecUpload == InitUpload /\ [][NextUpload]_vars

(***************************************************************************)
(* Properties.                                                             *)
(***************************************************************************)
Has(s, e) == \E i \in 1..Len(s) : s[i] = e
Count(s, e) == Cardinality({i \in 1..Len(s) : s[i] = e})
IsPrefix(s, t) == Len(s) <= Len(t) /\ \A i \in 1..Len(s) : s[i] = t[i]
\* the position of the first e in s (0 if there is none)
First(s, e) == IF Has(s, e) THEN CHOOSE i \in 1..Len(s) : s[i] = e /\ \A j \in 1..(i - 1) : s[j] # e
               ELSE 0

\* C1: in a Render call whose acquire reports out-of-date the rebuild is run
\* and the frame is abandoned: that call submits no command buffer and issues
\* no present.
C1_OutOfDateAcquireAbandonsFrame ==
    acquireResult = VK_ERROR_OUT_OF_DATE_KHR =>
        /\ Has(callLog, "InitializeSwapChain")
        /\ ~Has(callLog, "vkQueueSubmit")
        /\ ~Has(callLog, "vkQueuePresentKHR")

\* C2: a Render call whose present reports out-of-date runs exactly one swap
\* chain rebuild, makes no acquire, submit or present after that present, and
\* does not end with an error that stands for the out-of-date status (only a
\* failed creation call of the rebuild can end it).
C2_OutOfDatePresentRebuildsOnce ==
    (presentResult = VK_ERROR_OUT_OF_DATE_KHR /\ pc \in {"WaitIdle", "Running", "Terminated"}) =>
        /\ Count(callLog, "InitializeSwapChain") = 1
        /\ Count(callLog, "vkAcquireNextImageKHR") = 1
        /\ Count(callLog, "vkQueueSubmit") = 1
        /\ Count(callLog, "vkQueuePresentKHR") = 1
        /\ error \notin {"Failed to acquire swap chain image", "Failed to present swap chain image"}

\* the steps of a rebuild, in the order the claim gives
RebuildSteps ==
    <<"vkDeviceWaitIdle",
      "vkFreeCommandBuffers", "DestroyFramebuffers", "vkDestroyPipeline",
      "vkDestroyPipelineLayout", "vkDestroyRenderPass", "DestroyImageViews",
      "vkDestroySwapchainKHR",
      "CreateSwapChain", "CreateImageViews", "CreateRenderPass", "CreateDescriptorSetLayout",
      "CreateGraphicsPipeline", "CreateFramebuffers", "CreateCommandBuffers",
      "RecordCommandBuffers">>

\* C3: every rebuild performs, in this order, the device-idle wait, the seven
\* destruction steps and the eight creation steps; a rebuild that a failing
\* creation call ends has performed the steps up to that call. No creation
\* step precedes a destruction step.
C3_RebuildOrder ==
    logOp = "InitializeSwapChain" =>
        /\ IsPrefix(log, RebuildSteps)
        /\ Len(log) >= 9
        /\ (error = NoError => log = RebuildSteps)

\* a rebuild has run to its end
C3_Witness == logOp = "InitializeSwapChain" /\ error = NoError /\ Len(log) = 16 /\ gen = 2

\* C4: after Initialize and after every completed rebuild the swap chain
\* images, the image views, the framebuffers and the command buffers are
\* equal in number (in the object's vectors and among the live objects).
C4_EqualCounts ==
    pc \in {"Running", "Submit", "Present", "WaitIdle"} =>
        LET n == Len(api.aimgImages)
        IN  /\ n > 0
            /\ Len(api.aimgvImageViews) = n
            /\ Len(api.atgtFramebuffers) = n
            /\ Len(api.acbufCommandBuffers) = n
            /\ Cardinality(live["image"]) = n
            /\ Cardinality(live["imageView"]) = n
            /\ Cardinality(live["framebuffer"]) = n
            /\ Cardinality(live["commandBuffer"]) = n

\* two builds in succession gave swap chains with different numbers of images
C4_Witness ==
    /\ pc = "Running"
    /\ logOp = "InitializeSwapChain"
    /\ Len(imageCounts) >= 2
    /\ imageCounts[Len(imageCounts)] # imageCounts[Len(imageCounts) - 1]

\* the swap chain and every object made from it are live and of one build
ChainComplete ==
    LET g == api.swcSwapChain[1]
        n == Len(api.aimgImages)
    IN  /\ api.swcSwapChain = <<g, 0>> /\ api.swcSwapChain \in live["swapchain"]
        /\ n > 0
        /\ api.aimgImages = NewHandles(g, n) /\ Handles(api.aimgImages) \subseteq live["image"]
        /\ api.aimgvImageViews = NewHandles(g, n)
        /\ Handles(api.aimgvImageViews) \subseteq live["imageView"]
        /\ api.vkpassRenderPass = <<g, 0>> /\ api.vkpassRenderPass \in live["renderPass"]
        /\ api.vkplPipelineLayout = <<g, 0>> /\ api.vkplPipelineLayout \in live["pipelineLayout"]
        /\ api.vkgpipePipeline = <<g, 0>> /\ api.vkgpipePipeline \in live["pipeline"]
        /\ api.atgtFramebuffers = NewHandles(g, n)
        /\ Handles(api.atgtFramebuffers) \subseteq live["framebuffer"]
        /\ api.acbufCommandBuffers = NewHandles(g, n)
        /\ Handles(api.acbufCommandBuffers) \subseteq live["commandBuffer"]

\* C5: wherever Render is about to acquire, submit or present, the swap chain
\* and the objects made from it are all live and of the same completed build,
\* and so is the command buffer it submits.
C5_RenderUsesCompleteChain ==
    /\ pc \in {"Running", "Submit", "Present"} => ChainComplete
    /\ pc = "Submit" => CommandBufferAt(api, iImage) \in live["commandBuffer"]

\* the last resize notification had a zero width or height
ZeroPending == pc # "Constructed" /\ (sys.width = 0 \/ sys.height = 0)

\* C6: from a resize notification with a zero dimension until one with both
\* dimensions nonzero, no step attempts a swap chain creation.
C6_NoCreationWhileZeroSized ==
    [][(ZeroPending /\ ZeroPending') => gen' = gen]_vars

\* C7: for window dimensions w, h > 0 the extent chosen lies componentwise in
\* [minImageExtent, maxImageExtent].
C7_ExtentClamped ==
    (Answered("SelectSwapChainExtent") /\ q.in.width > 0 /\ q.in.height > 0) =>
        LET e == q.out[1]
            c == q.in.caps
        IN  /\ c.minImageExtent.width <= e.width /\ e.width <= c.maxImageExtent.width
            /\ c.minImageExtent.height <= e.height /\ e.height <= c.maxImageExtent.height

\* C8 as stated: minImageCount + 1 <= count <= maxImageCount when
\* maxImageCount > 0, and count = minImageCount + 1 when maxImageCount = 0.
C8_CountAboveMinimum ==
    Answered("SelectImageCount") =>
        LET c == q.in
            n == q.out[1]
        IN  /\ c.maxImageCount > 0 => (c.minImageCount + 1 <= n /\ n <= c.maxImageCount)
            /\ c.maxImageCount = 0 => n = c.minImageCount + 1

\* C8, amended: when maxImageCount > 0 the count is minImageCount + 1 clamped
\* down to maxImageCount, so minImageCount <= count <= maxImageCount; when
\* maxImageCount = 0 the count is minImageCount + 1.
C8_CountClamped ==
    Answered("SelectImageCount") =>
        LET c == q.in
            n == q.out[1]
        IN  /\ c.maxImageCount > 0 =>
                /\ c.minImageCount <= n /\ n <= c.maxImageCount
                /\ (c.minImageCount + 1 <= c.maxImageCount => n = c.minImageCount + 1)
                /\ (c.minImageCount + 1 > c.maxImageCount => n = c.maxImageCount)
            /\ c.maxImageCount = 0 => n = c.minImageCount + 1

\* the clamp took effect: the surface allows no image beyond its minimum
C8_Witness ==
    /\ Answered("SelectImageCount")
    /\ q.in.maxImageCount > 0 /\ q.in.maxImageCount = q.in.minImageCount
    /\ q.out[1] = q.in.maxImageCount

PreferredFormat ==
    [format |-> VK_FORMAT_B8G8R8A8_UNORM, colorSpace |-> VK_COLOR_SPACE_SCRGB_NONLINEAR_EXT]

\* C10: for a non-empty list the format selected is the fixed fallback pair if
\* the list is a single UNDEFINED entry, else the preferred pair if an entry
\* is that pair in format and colour space, else the first entry.
C10_FormatSelection ==
    Answered("SelectSwapChainFormat") =>
        q.out[1] = IF Len(q.in) = 1 /\ q.in[1].format = VK_FORMAT_UNDEFINED THEN PreferredFormat
                   ELSE IF Has(q.in, PreferredFormat) THEN PreferredFormat
                   ELSE q.in[1]

\* the first entry has been selected although a later entry has the preferred
\* format in another colour space
C10_Witness ==
    /\ Answered("SelectSwapChainFormat")
    /\ Len(q.in) >= 2
    /\ q.in[1].format # VK_FORMAT_B8G8R8A8_UNORM
    /\ \E i \in 2..Len(q.in) : q.in[i].format = VK_FORMAT_B8G8R8A8_UNORM
    /\ ~Has(q.in, PreferredFormat)
    /\ q.out[1] = q.in[1]

\* C11: every swap chain creation, in Initialize and in every rebuild, asks for
\* EXCLUSIVE sharing with no queue family index attached when the graphics and
\* the presentation queue family index are equal, and for CONCURRENT sharing
\* with exactly the two indices (graphics, presentation) when they differ.
C11_SharingMode ==
    gen > 0 =>
        IF api.iGraphicsQueueFamily = api.iPresentationQueueFamily
        THEN /\ api.ciSwapChain.imageSharingMode = VK_SHARING_MODE_EXCLUSIVE
             /\ api.ciSwapChain.queueFamilyIndexCount = 0
             /\ api.ciSwapChain.pQueueFamilyIndices = <<>>
        ELSE /\ api.ciSwapChain.imageSharingMode = VK_SHARING_MODE_CONCURRENT
             /\ api.ciSwapChain.queueFamilyIndexCount = 2
             /\ api.ciSwapChain.pQueueFamilyIndices =
                    <<api.iGraphicsQueueFamily, api.iPresentationQueueFamily>>

\* a rebuild has created a swap chain shared by two different queue families
C11_Witness ==
    /\ pc = "Running" /\ logOp = "InitializeSwapChain" /\ gen >= 2
    /\ api.iGraphicsQueueFamily # api.iPresentationQueueFamily
    /\ api.ciSwapChain.imageSharingMode = VK_SHARING_MODE_CONCURRENT

\* memory type i (from 0) of the table t is named by the filter f and has every
\* property of pr
C12_Fits(f, pr, t, i) == i \in f /\ pr \subseteq t[i + 1]

\* C12: FindMemoryType returns the lowest index i whose bit is set in the
\* filter and whose property flags include every requested property; when
\* there is no such index it throws and returns no index.
C12_FindMemoryType ==
    Answered("FindMemoryType") =>
        LET f == q.in.filter
            pr == q.in.props
            t == q.in.memoryTypes
            fit == {i \in 0..(Len(t) - 1) : C12_Fits(f, pr, t, i)}
            r == q.out[1]
        IN  IF fit = {}
            THEN r.error # NoError /\ r.ret = -1
            ELSE /\ r.error = NoError
                 /\ r.ret \in fit
                 /\ \A i \in fit : r.ret <= i

\* a type named by the filter that has only some of the requested properties
\* was passed over for a later one that has them all
C12_Witness ==
    /\ Answered("FindMemoryType")
    /\ q.out[1].error = NoError /\ q.out[1].ret = 1
    /\ 0 \in q.in.filter
    /\ q.in.memoryTypes[1] \cap q.in.props # {}
    /\ ~(q.in.props \subseteq q.in.memoryTypes[1])

\* the index (from 0) of the first family of the list fs that has a queue and
\* the capability has(_), or -1 if there is none
FirstFamily(fs, has(_)) ==
    IF \E i \in 1..Len(fs) : fs[i].queueCount > 0 /\ has(fs[i])
    THEN (CHOOSE i \in 1..Len(fs) :
             /\ fs[i].queueCount > 0 /\ has(fs[i])
             /\ \A j \in 1..(i - 1) : ~(fs[j].queueCount > 0 /\ has(fs[j]))) - 1
    ELSE -1
SupportsGraphics(f) == VK_QUEUE_GRAPHICS_BIT \in f.queueFlags
SupportsPresentation(f) == f.bPresentationSupport

\* the suitability predicate: a discrete GPU with geometry shaders, a graphics
\* family, a presentation family, the swap chain extension, at least one
\* surface format and at least one present mode
Suitable(dev) ==
    /\ dev.deviceType = VK_PHYSICAL_DEVICE_TYPE_DISCRETE_GPU /\ dev.geometryShader
    /\ FirstFamily(dev.aQueueFamilies, SupportsGraphics) >= 0
    /\ FirstFamily(dev.aQueueFamilies, SupportsPresentation) >= 0
    /\ VK_KHR_SWAPCHAIN_EXTENSION_NAME \in dev.aAvailableExtensions
    /\ dev.formats # <<>> /\ dev.modes # <<>>

\* C13: SelectPhysicalDevice selects the first enumerated device that meets
\* every condition of the suitability predicate, skipping the candidates
\* before it that fail a condition; it throws if and only if no candidate
\* meets them all.
C13_FirstSuitableDevice ==
    Answered("SelectPhysicalDevice") =>
        LET ds == q.in
            ok == {i \in 1..Len(ds) : Suitable(ds[i])}
            r == q.out[1]
        IN  IF ok = {}
            THEN r.error # NoError
            ELSE /\ r.error = NoError
                 /\ r.vkdevPhysicalDevice[2] \in ok
                 /\ \A i \in ok : r.vkdevPhysicalDevice[2] <= i

\* C14: whenever SelectPhysicalDevice succeeds, the graphics and the
\* presentation queue family index are both present (not -1).
C14_BothFamiliesPresent ==
    (Answered("SelectPhysicalDevice") /\ q.out[1].error = NoError) =>
        /\ q.out[1].iGraphicsQueueFamily >= 0
        /\ q.out[1].iPresentationQueueFamily >= 0

\* C15: FindQueueFamilies sets the graphics index to the lowest-indexed family
\* with a queue and graphics support and the presentation index to the
\* lowest-indexed family with a queue and presentation support (-1 where there
\* is none), each independently of the other.
C15_FirstMatchingFamilies ==
    Answered("FindQueueFamilies") =>
        /\ q.out[1].iGraphicsQueueFamily = FirstFamily(q.in, SupportsGraphics)
        /\ q.out[1].iPresentationQueueFamily = FirstFamily(q.in, SupportsPresentation)

\* the driver calls of the current Render call, in the order it made them
RenderCalls == SelectSeq(callLog, LAMBDA c : c # "InitializeSwapChain")
RenderOrder == <<"vkAcquireNextImageKHR", "vkQueueSubmit", "vkQueuePresentKHR",
                 "vkDeviceWaitIdle">>

\* C16: a Render call acquires (signalling syncImageAvailable), then submits
\* to the graphics queue (waiting on syncImageAvailable, signalling
\* syncRender), then presents on the presentation queue (waiting on
\* syncRender), then waits for the device to be idle; the command buffer it
\* submits and the image it presents have the index that this call's acquire
\* returned.
C16_FrameOrderAndIndex ==
    /\ RenderCalls = SubSeq(RenderOrder, 1, Len(RenderCalls))
    /\ frame.acquire # NoCall => frame.acquire.semaphore = api.syncImageAvailable
    /\ frame.submit # NoCall =>
          /\ frame.submit.queue = api.qGraphicsQueue
          /\ frame.submit.pWaitSemaphores = <<frame.acquire.semaphore>>
          /\ frame.submit.pSignalSemaphores = <<api.syncRender>>
          /\ frame.submit.iCommandBuffer = frame.acquire.pImageIndex
    /\ frame.present # NoCall =>
          /\ frame.present.queue = api.qPresentationQueue
          /\ frame.present.pWaitSemaphores = <<api.syncRender>>
          /\ frame.present.pImageIndices = <<frame.acquire.pImageIndex>>

\* C17: at most one submitted frame is unfinished at any time, and a Render
\* call that has returned normally waited for the device to be idle after its
\* last submission, so no frame is in flight between calls.
C17_OneFrameInFlight ==
    /\ inFlight <= 1
    /\ pc \in {"Running", "Submit"} => inFlight = 0
    /\ (pc = "Running" /\ Has(callLog, "vkQueueSubmit")) =>
           callLog[Len(callLog)] = "vkDeviceWaitIdle"

\* C17 witness: a Render call that submitted and presented a frame has returned
C17_Witness ==
    /\ pc = "Running" /\ error = NoError
    /\ RenderCalls = RenderOrder
    /\ inFlight = 0

\* the statuses Render neither accepts nor answers with a rebuild
FatalResults == VkResults \ {VK_SUCCESS, VK_SUBOPTIMAL_KHR, VK_ERROR_OUT_OF_DATE_KHR}

\* C18: VK_SUBOPTIMAL_KHR from the acquire or from the present is treated as a
\* success: the frame goes on and no rebuild is started for it. Any other
\* status that is neither success nor out-of-date ends the call with an
\* error; for the acquire the error is raised before anything is submitted.
C18_SuboptimalIsSuccess ==
    /\ acquireResult = VK_SUBOPTIMAL_KHR =>
          /\ Head(callLog) = "vkAcquireNextImageKHR"
          /\ Len(callLog) > 1 => callLog[2] = "vkQueueSubmit"
          /\ Len(callLog) = 1 => (pc = "Submit" /\ error = NoError)
          /\ error # "Failed to acquire swap chain image"
    /\ acquireResult \in FatalResults =>
          /\ pc = "Terminated"
          /\ error = "Failed to acquire swap chain image"
          /\ callLog = <<"vkAcquireNextImageKHR">>
          /\ frame.submit = NoCall /\ inFlight = 0
    /\ presentResult = VK_SUBOPTIMAL_KHR =>
          /\ error # "Failed to present swap chain image"
          /\ pc = "WaitIdle" => error = NoError
          /\ \A i \in 1..Len(callLog) :
                callLog[i] = "vkQueuePresentKHR" =>
                    (i = Len(callLog) \/ callLog[i + 1] = "vkDeviceWaitIdle")
    /\ presentResult \in FatalResults =>
          /\ pc = "Terminated"
          /\ error = "Failed to present swap chain image"
          /\ callLog[Len(callLog)] = "vkQueuePresentKHR"

\* C18 witness: a Render call returned normally, without a rebuild, after both
\* its acquire and its present reported VK_SUBOPTIMAL_KHR
C18_Witness ==
    /\ pc = "Running" /\ error = NoError
    /\ acquireResult = VK_SUBOPTIMAL_KHR
    /\ presentResult = VK_SUBOPTIMAL_KHR
    /\ callLog = RenderOrder

\* the first position after position i of the sequence s that holds e (0 if none)
FirstAfter(s, e, i) ==
    IF \E j \in (i + 1)..Len(s) : s[j] = e
    THEN CHOOSE j \in (i + 1)..Len(s) : s[j] = e /\ \A k \in (i + 1)..(j - 1) : s[k] # e
    ELSE 0

\* the steps of a staging upload into the object dst, in the order of the
\* log: positions of the creation of the staging buffer, of the map, copy and
\* unmap, of the creation of the destination, of the recorded copy, of the
\* submission that carries it, of the wait that follows, and of the release of
\* the staging buffer and its memory
UploadSteps(lg, dst) ==
    LET create == IF dst = "vkhImageData" THEN "vkCreateImage" ELSE "vkCreateBuffer"
        copy == IF dst = "vkhImageData" THEN "vkCmdCopyBufferToImage" ELSE "vkCmdCopyBuffer"
        iCopy == FirstAfter(lg, <<copy, dst>>, 0)
        iSubmit == FirstAfter(lg, <<"vkQueueSubmit", "qGraphicsQueue">>, iCopy)
    IN  <<FirstAfter(lg, <<"vkCreateBuffer", "vkhStagingBuffer">>, 0),
          FirstAfter(lg, <<"vkMapMemory", "vkhStagingMemory">>, 0),
          FirstAfter(lg, <<"memcpy", "vkhStagingMemory">>, 0),
          FirstAfter(lg, <<"vkUnmapMemory", "vkhStagingMemory">>, 0),
          FirstAfter(lg, <<create, dst>>, 0),
          iCopy,
          iSubmit,
          FirstAfter(lg, <<"vkQueueWaitIdle", "qGraphicsQueue">>, iSubmit),
          FirstAfter(lg, <<"vkDestroyBuffer", "vkhStagingBuffer">>, 0),
          FirstAfter(lg, <<"vkFreeMemory", "vkhStagingMemory">>, 0)>>

\* C19: every staging upload (vertex, index, texture data) that returns has
\* created a host-visible staging buffer, mapped it, copied the payload and
\* unmapped it, created the device-local destination, submitted the copy,
\* waited for the graphics queue to be idle and then destroyed the staging
\* buffer and freed its memory, in this order; the staging buffer is never
\* destroyed while the copy is pending, and none is live after the return.
C19_StagingUploadOrder ==
    \A up \in Uploads :
        Answered(up) =>
            LET u == q.out[1]
                st == UploadSteps(u.log, Destination(up))
            IN  /\ \A o \in {"vkhStagingBuffer", "vkhStagingMemory"} :
                       <<"in use", o>> \notin u.misuse
                /\ u.error = NoError =>
                      /\ \A i \in 1..Len(st) : st[i] > 0
                      /\ \A i \in 1..(Len(st) - 1) : st[i] < st[i + 1]
                      /\ Count(u.log, <<"vkDestroyBuffer", "vkhStagingBuffer">>) = 1
                      /\ \E pr \in SUBSET MemoryPropertyFlags :
                            /\ <<"vkhStagingBuffer", pr>> \in u.memoryProps
                            /\ VK_MEMORY_PROPERTY_HOST_VISIBLE_BIT \in pr
                      /\ \E pr \in SUBSET MemoryPropertyFlags :
                            /\ <<Destination(up), pr>> \in u.memoryProps
                            /\ VK_MEMORY_PROPERTY_DEVICE_LOCAL_BIT \in pr
                      /\ u.pending = <<>>
                      /\ u.live \cap {"vkhStagingBuffer", "vkhStagingMemory"} = {}

\* C19 witness: a texture upload has returned, its staging buffer destroyed
\* after the copy
C19_Witness ==
    /\ Answered("CreateTextureImage")
    /\ q.out[1].error = NoError
    /\ Has(q.out[1].log, <<"vkDestroyBuffer", "vkhStagingBuffer">>)
    /\ "vkhImageData" \in q.out[1].data

\* C20: the texture upload takes the image through exactly the layouts
\* undefined, transfer-destination (before the buffer-to-image copy),
\* shader-read-only (after the copy has completed); the image is in the
\* shader-read-only layout when the upload returns.
C20_TextureLayoutSequence ==
    (Answered("CreateTextureImage") /\ q.out[1].error = NoError) =>
        /\ q.out[1].layout = <<VK_IMAGE_LAYOUT_UNDEFINED, VK_IMAGE_LAYOUT_TRANSFER_DST_OPTIMAL,
                               VK_IMAGE_LAYOUT_SHADER_READ_ONLY_OPTIMAL>>
        /\ q.out[1].misuse = {}

\* C21: Initialize registers the validation callback if and only if the
\* validation layers are in use, and Destroy unregisters it if and only if it
\* was registered, before it destroys the instance.
C21_CallbackLifecycle ==
    /\ (logOp = "Initialize" /\ pc = "Running") =>
          ((live["callback"] # {}) <=> ShouldUseValidationLayers(host))
    /\ logOp = "Destroy" =>
          /\ Has(log, "vkDestroyDebugReportCallbackEXT") <=> (api.clbkValidation # GarbageHandle)
          /\ Has(log, "vkDestroyInstance") =>
                First(log, "DestroyValidationErrorCallback") < First(log, "vkDestroyInstance")
          /\ \A mu \in misuse : mu[1] # "callback"

\* C22: CreateInstance creates the instance if and only if every required
\* instance extension (those of the window system, and the debug report
\* extension when the validation layers are in use) is supported and, when
\* the validation layers are in use, every requested layer is available;
\* otherwise it raises an error and no instance is created. An instance is
\* created with all the required extensions and layers, never a subset.
C22_InstanceAllOrNothing ==
    Answered("CreateInstance") =>
        LET h == q.in.host
            r == q.out[1]
            need == glfwGetRequiredInstanceExtensions \cup
                        IF h.bUseValidationLayers THEN {VK_EXT_DEBUG_REPORT_EXTENSION_NAME} ELSE {}
            ok == /\ need \subseteq h.aAvailableExtensions
                  /\ h.bUseValidationLayers => validationLayers \subseteq h.availableLayers
        IN  /\ ~q.in.fail => ((r.instances # {}) <=> ok)
            /\ ~ok => (r.error # NoError /\ r.instances = {})
            /\ q.in.fail => (r.error # NoError /\ r.instances = {})
            /\ r.instances # {} =>
                  /\ r.error = NoError
                  /\ r.ciInstance.ppEnabledExtensionNames = need
                  /\ r.ciInstance.ppEnabledLayerNames =
                         IF h.bUseValidationLayers THEN validationLayers ELSE {}

\* C22 witness: an instance was created with the validation layers in use
C22_Witness ==
    /\ Answered("CreateInstance")
    /\ q.in.host.bUseValidationLayers
    /\ q.out[1].instances # {}
    /\ VK_EXT_DEBUG_REPORT_EXTENSION_NAME \in q.out[1].ciInstance.ppEnabledExtensionNames

\* the objects that do not depend on the swap chain: the fields that hold them
\* and the driver's live objects of their kinds
PersistentKinds == {"device", "surface", "commandPool", "semaphore", "buffer", "memory"}
PersistentObjects ==
    <<api.vkdevLogicalDevice, api.sfcSurface, api.vkhCommandPool, api.syncImageAvailable,
      api.syncRender, api.vkhVertexBuffer, api.vkhVertexBufferMemory, api.vkhIndexBuffer,
      api.vkhIndexBufferMemory, [k \in PersistentKinds |-> live[k]]>>

\* C23: a rebuild leaves the logical device, the surface, the command pool,
\* the semaphores and the vertex and index buffers with their memory
\* unchanged; each is created once in Initialize and destroyed once in
\* Destroy, however many rebuilds there were.
C23_PersistentObjects ==
    [][/\ (pc # "Constructed" /\ logOp' # "Destroy") => PersistentObjects' = PersistentObjects
       /\ (pc = "Constructed" /\ pc' = "Running") =>
              \A k \in PersistentKinds : live'[k] # {}
       /\ logOp' = "Destroy" =>
              /\ \A k \in PersistentKinds : live'[k] = {}
              /\ \A mu \in misuse' : mu[1] \notin PersistentKinds]_vars

\* the kinds of objects that belong to the logical device
DeviceOwnedKinds == Kinds \ {"instance", "callback", "surface", "device"}

\* the step a comes before the step b in the log lg, when b is there
Before(lg, a, b) == Has(lg, b) => (Has(lg, a) /\ First(lg, a) < First(lg, b))

\* C24: Destroy first waits for the device to be idle and destroys no object
\* while an object that depends on it is live: command buffers before the
\* command pool, framebuffers before image views and render pass, pipeline
\* before pipeline layout and render pass, image views before the swap chain,
\* every object of the device before the device, callback and surface before
\* the instance.
C24_ReverseDependencyOrder ==
    logOp = "Destroy" =>
        /\ Head(log) = "vkDeviceWaitIdle"
        /\ Len(api.acbufCommandBuffers) > 0 =>
               Before(log, "vkFreeCommandBuffers", "vkDestroyCommandPool")
        /\ Before(log, "DestroyFramebuffers", "DestroyImageViews")
        /\ Before(log, "DestroyFramebuffers", "vkDestroyRenderPass")
        /\ Before(log, "vkDestroyPipeline", "vkDestroyPipelineLayout")
        /\ Before(log, "vkDestroyPipeline", "vkDestroyRenderPass")
        /\ Before(log, "DestroyImageViews", "vkDestroySwapchainKHR")
        /\ Before(log, "DestroyValidationErrorCallback", "vkDestroyInstance")
        /\ Before(log, "vkDestroySurfaceKHR", "vkDestroyInstance")
        /\ Before(log, "vkDestroyDevice", "vkDestroyInstance")
        /\ Has(log, "vkDestroyDevice") =>
               /\ \A k \in DeviceOwnedKinds : live[k] = {}
               /\ \A s \in {"vkDestroySwapchainKHR", "vkDestroyDescriptorSetLayout",
                            "vkDestroyBuffer", "DestroySemaphores", "vkDestroyCommandPool"} :
                      Before(log, s, "vkDestroyDevice")

\* the errors Initialize ends with when the installation cannot run the
\* program: a required extension or layer is missing, there is no physical
\* device, or none is suitable
InitializationErrors ==
    {"Not all required extensions are supported",
     "Validation layers enabled but not available!",
     "No available physical devices",
     "No suitable physical device found"}

\* C25: when Initialize fails with an initialization error, no GPU resource
\* is live when the error reaches the caller.
C25_NothingLiveOnInitializationError ==
    (logOp = "Initialize" /\ error \in InitializationErrors) =>
        \A k \in Kinds : live[k] = {}

\* C26: every one-time transfer either runs to completion or raises a fatal
\* error: an upload that returns normally has transferred the data, whatever
\* step of the one-time command or of the mapping of the staging memory failed.
C26_TransferCompletesOrFails ==
    \A up \in Uploads :
        (Answered(up) /\ q.out[1].error = NoError) =>
            /\ Destination(up) \in q.out[1].data
            /\ q.out[1].misuse \subseteq {<<"dstImageLayout", "vkhImageData">>}

\* the steps of Initialize that come one after the other, in their order
InitializeOrder ==
    <<"CreateInstance", "SetupValidationErrorCallback", "CreateSurface",
      "SelectPhysicalDevice", "CreateLogicalDevice", "CreateSwapChain",
      "CreateImageViews", "CreateRenderPass", "CreateDescriptorSetLayout",
      "CreateGraphicsPipeline", "CreateFramebuffers">>

\* C27: Initialize creates its objects in dependency order: instance, validation
\* callback, surface, physical device, logical device, swap chain, image views,
\* render pass, descriptor set layout, pipeline, framebuffers; the command pool
\* before the vertex and index uploads and before the command buffers are
\* allocated; the vertex and index buffers before the command buffers are
\* recorded; the semaphores last, and all of it when Initialize returns.
C27_InitializeOrder ==
    logOp = "Initialize" =>
        /\ \A i \in 1..(Len(InitializeOrder) - 1) :
               Before(log, InitializeOrder[i], InitializeOrder[i + 1])
        /\ \A s \in {"CreateVertexBuffers", "CreateIndexBuffers", "CreateCommandBuffers"} :
               /\ Before(log, "CreateFramebuffers", s)
               /\ Before(log, "CreateCommandPool", s)
        /\ Before(log, "CreateVertexBuffers", "RecordCommandBuffers")
        /\ Before(log, "CreateIndexBuffers", "RecordCommandBuffers")
        /\ Before(log, "CreateCommandBuffers", "RecordCommandBuffers")
        /\ Before(log, "RecordCommandBuffers", "CreateSemaphores")
        /\ \A i \in 1..Len(log) : Count(log, log[i]) = 1
        /\ error = NoError =>
               /\ log[Len(log)] = "CreateSemaphores"
               /\ \A i \in 1..Len(InitializeOrder) : Has(log, InitializeOrder[i])
               /\ live["commandPool"] # {} /\ live["semaphore"] # {}

\* C27 witness: Initialize has returned with everything created
C27_Witness ==
    /\ logOp = "Initialize" /\ error = NoError
    /\ Has(log, "CreateInstance") /\ Has(log, "CreateCommandPool")
    /\ Has(log, "RecordCommandBuffers") /\ Has(log, "CreateSemaphores")

\* vkGetPhysicalDeviceSurfaceCapabilitiesKHR for the window as it is now: a
\* surface that has an extent of its own has the size s of the window, the
\* other capabilities are those the device reported before
SurfaceCapabilities(caps, s) ==
    IF caps.currentExtent.width = UINT32_MAX THEN caps
    ELSE [caps EXCEPT !.currentExtent = s]

\* C28: every rebuild derives the swap chain configuration from surface
\* capabilities queried during that rebuild: the capabilities a rebuild works
\* with are those of the surface at that time, not those cached when the
\* device was selected.
C28_RebuildQueriesSurface ==
    [][(pc # "Constructed" /\ gen' > gen) =>
           api'.capsSurface = SurfaceCapabilities(api'.capsSurface, sys')]_vars

\* the float f has the value of the integer n
FloatEquals(f, n) ==
    /\ n % (2 ^ f.exponent) = 0
    /\ n \div (2 ^ f.exponent) = f.mantissa

\* the states in which Initialize or a rebuild has completed and the swap
\* chain is in use
InUse == pc \in {"Running", "Submit", "Present", "WaitIdle"}

\* C29: after Initialize and after every completed rebuild the objects that
\* depend on the extent or the format agree with the swap chain: viewport and
\* scissor of the pipeline, width and height of every framebuffer and the
\* render area recorded in every command buffer equal the swap chain extent;
\* the attachment format of the render pass and the format of every image
\* view equal the swap chain format.
C29_ExtentAndFormatAgree ==
    InUse =>
        /\ api.ciSwapChain.imageExtent = api.sexExtent
        /\ api.ciSwapChain.imageFormat = api.sfmtFormat.format
        /\ FloatEquals(api.ciViewportState.vpViewport.width, api.sexExtent.width)
        /\ FloatEquals(api.ciViewportState.vpViewport.height, api.sexExtent.height)
        /\ api.ciViewportState.rectScissor.extent = api.sexExtent
        /\ Len(api.ciFramebuffers) = Len(api.atgtFramebuffers)
        /\ \A i \in 1..Len(api.ciFramebuffers) :
               /\ api.ciFramebuffers[i].width = api.sexExtent.width
               /\ api.ciFramebuffers[i].height = api.sexExtent.height
        /\ Len(api.recorded) = Len(api.acbufCommandBuffers)
        /\ \A i \in 1..Len(api.recorded) :
               \A j \in 1..Len(api.recorded[i]) :
                   api.recorded[i][j].cmd = "vkCmdBeginRenderPass" =>
                       api.recorded[i][j].args.renderArea.extent = api.sexExtent
        /\ api.descColorAttachment.format = api.sfmtFormat.format
        /\ Len(api.ciImageViews) = Len(api.aimgvImageViews)
        /\ \A i \in 1..Len(api.ciImageViews) :
               api.ciImageViews[i].format = api.sfmtFormat.format

\* the commands of a recorded command buffer, by name
CommandNames(commands) == [j \in 1..Len(commands) |-> commands[j].cmd]

\* C30: after Initialize and after every rebuild there is exactly one command
\* buffer per framebuffer, each recorded exactly once; command buffer i begins
\* a render pass on framebuffer i, which wraps the view of swap chain image i,
\* and holds the sequence begin render pass, bind pipeline, bind vertex and
\* index buffers, indexed draw, end render pass, end recording.
C30_OneRecordedCommandBufferPerFramebuffer ==
    InUse =>
        LET n == Len(api.atgtFramebuffers)
        IN  /\ Len(api.acbufCommandBuffers) = n
            /\ Cardinality(Handles(api.acbufCommandBuffers)) = n
            /\ Handles(api.acbufCommandBuffers) = live["commandBuffer"]
            /\ Len(api.recorded) = n
            /\ logOp \in {"Initialize", "InitializeSwapChain"} =>
                   Count(log, "RecordCommandBuffers") = 1
            /\ \A i \in 1..n :
                   /\ CommandNames(api.recorded[i]) =
                          <<"vkBeginCommandBuffer", "vkCmdBeginRenderPass", "vkCmdBindPipeline",
                            "vkCmdBindVertexBuffers", "vkCmdBindIndexBuffer", "vkCmdDrawIndexed",
                            "vkCmdEndRenderPass", "vkEndCommandBuffer">>
                   /\ api.recorded[i][2].args.framebuffer = api.atgtFramebuffers[i]
                   /\ api.recorded[i][2].args.renderPass = api.vkpassRenderPass
                   /\ api.ciFramebuffers[i].pAttachments = <<api.aimgvImageViews[i]>>
                   /\ api.ciFramebuffers[i].renderPass = api.vkpassRenderPass
                   /\ api.ciImageViews[i].image = api.aimgImages[i]
                   /\ api.recorded[i][3].args = api.vkgpipePipeline
                   /\ api.recorded[i][4].args = <<api.vkhVertexBuffer>>
                   /\ api.recorded[i][5].args = api.vkhIndexBuffer
                   /\ api.atgtFramebuffers[i] \in live["framebuffer"]
                   /\ api.aimgvImageViews[i] \in live["imageView"]
                   /\ api.aimgImages[i] \in live["image"]
            /\ api.vkgpipePipeline \in live["pipeline"]
            /\ {api.vkhVertexBuffer, api.vkhIndexBuffer} \subseteq live["buffer"]

\* C30 witness: a rebuild has completed and several command buffers are recorded
C30_Witness ==
    /\ pc = "Running" /\ logOp = "InitializeSwapChain" /\ gen >= 2
    /\ Len(api.recorded) >= 2
    /\ \A i \in 1..Len(api.recorded) : Len(api.recorded[i]) = 8

\* C31: the render pass created in every build carries exactly one subpass
\* dependency, from the external scope to subpass 0 at the color attachment
\* output stage.
C31_OneSubpassDependency ==
    InUse =>
        LET deps == SubpassDependencies(api.ciRenderPass)
        IN  /\ Len(deps) = 1
            /\ deps[1].srcSubpass = VK_SUBPASS_EXTERNAL
            /\ deps[1].dstSubpass = 0
            /\ deps[1].srcStageMask = {VK_PIPELINE_STAGE_COLOR_ATTACHMENT_OUTPUT_BIT}
            /\ deps[1].dstStageMask = {VK_PIPELINE_STAGE_COLOR_ATTACHMENT_OUTPUT_BIT}

\* C32: the mapped memory of the uniform buffer is written only between
\* frames: whenever UpdateUniformBuffer writes, no submitted frame is executing
\* on the device (the previous Render has waited for the device, the current
\* one has not submitted yet), whatever Render calls, resize notifications and
\* rebuilds came before.
C32_UniformWrittenBetweenFrames ==
    /\ frame.uniform # NoCall =>
           /\ frame.uniform.executing = 0
           /\ frame.uniform.memory = "vkhUniformBufferMemory"
    /\ frame.submit # NoCall => frame.uniform # NoCall
    /\ pc = "Running" => inFlight = 0

\* C32 witness: a Render call that follows a rebuild has written the uniform
\* buffer and has not submitted yet
C32_Witness ==
    /\ pc = "Submit" /\ error = NoError
    /\ frame.uniform # NoCall /\ frame.submit = NoCall
    /\ gen >= 2 /\ acquireResult = VK_SUCCESS

\* C33: every queue submission that waits on the image-available semaphore is
\* preceded, in the same Render call, by a successful acquire (VK_SUCCESS or
\* VK_SUBOPTIMAL_KHR) that signals that semaphore, so that the submission, the
\* present and the final wait for the device cannot wait for ever.
C33_SubmitFollowsSuccessfulAcquire ==
    (pc = "Present" /\ error = NoError /\ frame.submit # NoCall) =>
        /\ frame.submit.pWaitSemaphores = <<frame.acquire.semaphore>>
        /\ acquireResult \in {VK_SUCCESS, VK_SUBOPTIMAL_KHR}

\* C34: whenever Render indexes the command buffer array or presents an
\* image, the index it uses was written by a successful acquire of the same
\* call on the swap chain that is live now, and is smaller than the number of
\* command buffers: never an index a failed acquire left unset, never one of a
\* swap chain a rebuild has destroyed.
C34_ImageIndexFromLiveSwapChain ==
    /\ (pc = "Present" /\ frame.submit # NoCall) =>
           /\ acquireResult \in {VK_SUCCESS, VK_SUBOPTIMAL_KHR}
           /\ frame.acquire.swapchain = api.swcSwapChain
           /\ api.swcSwapChain \in live["swapchain"]
           /\ frame.acquire.pImageIndex = frame.submit.iCommandBuffer
           /\ frame.submit.iCommandBuffer \in 0..(Len(api.acbufCommandBuffers) - 1)
    /\ (pc = "WaitIdle" /\ frame.present # NoCall) =>
           /\ acquireResult \in {VK_SUCCESS, VK_SUBOPTIMAL_KHR}
           /\ frame.present.pSwapchains = <<frame.acquire.swapchain>>
           /\ frame.present.pImageIndices = <<frame.acquire.pImageIndex>>

\* C35: in every run Initialize, rebuilds, Destroy, every object the program
\* created has been destroyed exactly once when Destroy returns; every
\* descriptor set layout a rebuild created is destroyed, and there is never
\* more than one live descriptor set layout.
C35_EverythingDestroyedOnce ==
    /\ Cardinality(live["descriptorSetLayout"]) <= 1
    /\ logOp = "Destroy" =>
           /\ error = NoError
           /\ \A k \in Kinds : live[k] = {}
           /\ misuse = {}

\* the caller catches the exception a rebuild has ended with and calls Destroy
DestroyAfterFailedRebuild ==
    /\ pc = "Terminated" /\ logOp = "InitializeSwapChain"
    /\ \E pfn \in BOOLEAN, clbk \in Indeterminate(api.clbkValidation) :
          \E r \in {Destroy([Current EXCEPT !.error = NoError], host, pfn, clbk)} :
              Becomes(r, "Destroyed")
    /\ logOp' = "Destroy"
    /\ inFlight' = 0
    /\ UNCHANGED <<wnd, sys, iImage, statusResult, acquireResult, presentResult, callLog,
                   imageCounts, frame, host, q>>

NextCaught ==
    \/ Next
    \/ DestroyAfterFailedRebuild

\* the program with a caller that cleans up after a rebuild has failed
SpecCaught == Init /\ [][NextCaught]_vars

\* C36: no handle is destroyed twice or used after it was destroyed, in any
\* sequence of operations, also when a creation step of a rebuild fails after
\* DestroySwapChain has run and Destroy is called afterwards.
C36_NoDoubleDestroyNoUseAfterDestroy ==
    /\ misuse = {}
    /\ (pc = "Present" /\ error = NoError /\ frame.submit # NoCall) =>
           Handles(frame.submit.pCommandBuffers) \subseteq live["commandBuffer"]

\* C37: the queue family indices a successful SelectPhysicalDevice leaves in
\* the members (the ones CreateLogicalDevice, CreateCommandPool and
\* CreateSwapChain read) are the ones FindQueueFamilies finds on the selected
\* device itself, whatever candidates were examined and rejected before it.
C37_IndicesOfSelectedDevice ==
    (Answered("SelectPhysicalDevice") /\ q.out[1].error = NoError) =>
        LET device == q.in[q.out[1].vkdevPhysicalDevice[2]]
            found == FindQueueFamilies(Machine(ConstructedApi, live, gen, log, NoError, {}), device)
        IN  /\ q.out[1].iGraphicsQueueFamily = found.api.iGraphicsQueueFamily
            /\ q.out[1].iPresentationQueueFamily = found.api.iPresentationQueueFamily

\* C38: a Destroy that follows a successful Initialize runs to its end with the
\* diagnostics option set or not: it raises nothing and it reaches the
\* destruction of the surface, of the instance and of the window.
C38_DestroyRunsToItsEnd ==
    logOp = "Destroy" =>
        /\ error = NoError
        /\ pc = "Destroyed"
        /\ Has(log, "vkDestroySurfaceKHR")
        /\ Has(log, "vkDestroyInstance")
        /\ Has(log, "Close")

====
